---------------------------- MODULE Spec2Model ----------------------------
(*************************************************************************)
(* Task-distribution engine (src/main.py): TaskManager over a shared     *)
(* PostgreSQL database, with NotificationService.                        *)
(*                                                                       *)
(* The database outlives every TaskManager (Database.initialize_db uses  *)
(* CREATE TABLE IF NOT EXISTS), so the state after construction is a     *)
(* database holding the rows earlier runs committed.  Init is such a     *)
(* database, the one the example run at the end of src/main.py has made  *)
(* when its first add_employee_to_department has returned: two           *)
(* administrators and two employees registered, one department headed by *)
(* the first administrator, the first employee added to it; no task and  *)
(* no notification yet.  Every TaskManager starts without a session.     *)
(*                                                                       *)
(* Spec runs one engine, one call at a time, each call a whole handler;  *)
(* SpecConc runs assign_task statement by statement on two engines.      *)
(* SpecComments adds the comments, SpecDepartments creates departments   *)
(* and adds employees starting without any, SpecAll makes every call     *)
(* that needs a session, and SpecFaults lets the INSERT of a             *)
(* notification or the SMTP server fail after a handler's own statement  *)
(* has committed, or that statement itself.  SpecReads lists tasks and   *)
(* statistics, SpecNotifications marks notifications as read, SpecNoMail *)
(* makes the calls when no mail can go out.  Statement by statement:     *)
(* SpecRegister runs register_user for two callers, SpecMail runs        *)
(* assign_task up to and through its SMTP conversation, SpecShared has   *)
(* two callers on one engine, one of them logging in and out, and       *)
(* SpecStatus runs update_task_status on one engine next to assign_task  *)
(* on the other.  SpecPages asks for the pages of get_user_tasks and     *)
(* SpecStatistics creates tasks with deadlines for get_user_statistics.  *)
(*                                                                       *)
(* Identifiers: the code draws uuid4 strings; the model numbers the rows *)
(* of each table 1, 2, ... in insertion order.  None is SQL NULL /       *)
(* Python None.  Status strings: "new" = 'новая', "in_progress" =        *)
(* 'в работе', "completed" = 'выполнена', "cancelled" = 'отменена'.      *)
(* Names, titles and the words of the messages are written in English;   *)
(* a message is the sequence of the pieces its f-string puts together.   *)
(*************************************************************************)
EXTENDS Integers, Sequences, FiniteSets

VARIABLES
    users,                  \* table users: row id -> [username, password_hash, is_admin,
                            \* full_name]
    departments,            \* table departments: row id -> [head_id]
    department_employees,   \* table department_employees: set of <<department_id, user_id>>
    tasks,                  \* table tasks: row id -> [title, created_by, assigned_to,
                            \* department_id, status, deadline]
    notifications,          \* table notifications: row id -> [user_id, message, type,
                            \* related_id, is_read]
    task_comments,          \* table task_comments: row id -> [task_id, user_id, text]
    current_user,           \* engine -> NoUser or the User object of its session
    calls,                  \* caller -> the call it has in flight (stepwise runs)
    ncalls,                 \* the number of calls made on the engine so far
    last                    \* the last completed call: operation, engine, arguments, result,
                            \* and the tables it may write as they were before it

vars == <<users, departments, department_employees, tasks, notifications, task_comments,
          current_user, calls, ncalls, last>>

db == <<users, departments, department_employees, tasks, notifications, task_comments>>

None == 0

\* ---- bounds of the model: calls made in a run of Spec, rows per table ----
MaxCalls == 4
MaxTasks == 2
MaxDepartments == 1
MaxNotifications == 4
MaxComments == 2
MaxUsers == 6

\* two TaskManager instances over the one database; caller c drives engine c
Engines == {1, 2}
Callers == Engines

\* ---- program constants ----
valid_statuses == {"new", "in_progress", "completed", "cancelled"}

Passwords == {"password123", "pass123"}

\* User.hash_password: SHA-256 hex digest, a fixed-length one-way digest;
\* modelled as an injective tagging of the password (no collisions on Passwords)
hash_password(password) == <<"sha256", password>>

\* rows committed by the example run's four register_user calls, in their order
SeedUsers ==
    << [username |-> "admin1", password_hash |-> hash_password("password123"),
        is_admin |-> TRUE, full_name |-> "Ivanov Ivan"],
       [username |-> "admin2", password_hash |-> hash_password("password123"),
        is_admin |-> TRUE, full_name |-> "Petrov Petr"],
       [username |-> "user1", password_hash |-> hash_password("pass123"),
        is_admin |-> FALSE, full_name |-> "Sidorov Aleksei"],
       [username |-> "user2", password_hash |-> hash_password("pass123"),
        is_admin |-> FALSE, full_name |-> "Smirnova Maria"] >>

\* rows committed by the example run's create_department and its first
\* add_employee_to_department: department 1 headed by admin1, user1 its employee
SeedDepartments == << [head_id |-> 1] >>

SeedEmployees == { <<1, 3>> }

\* the names tried at login: the users who make the calls of the runs (the second
\* administrator makes none) and a name that is not registered
Usernames == {"admin1", "user1", "user2", "ghost"}

\* the users the calls of the runs are made by and name: the first administrator and
\* the two employees
ActingUsers == {1, 3, 4}

\* ids a caller may pass: these users and one id that names no row
UserIdInputs == ActingUsers \cup {Len(SeedUsers) + 1}
TaskIdInputs == 1..(MaxTasks + 1)
DepartmentIdInputs == 1..(MaxDepartments + 1)

NoCall == [pc |-> "idle", result |-> "none", overtaken |-> {}]

\* self.current_user = None
NoUser == [id |-> None, username |-> "", is_admin |-> FALSE]

NoLast == [op |-> "none", engine |-> 0, result |-> "none"]

Init ==
    /\ users = SeedUsers
    /\ departments = SeedDepartments
    /\ department_employees = SeedEmployees
    /\ tasks = << >>
    /\ notifications = << >>
    /\ task_comments = << >>
    /\ current_user = [e \in Engines |-> NoUser]
    /\ calls = [c \in Callers |-> NoCall]
    /\ ncalls = 0
    /\ last = NoLast

\* ---- Database reads ----

\* SELECT ... FROM users WHERE id = %s
UserExists(user_id) == user_id \in DOMAIN users

\* SELECT ... FROM departments WHERE id = %s
DepartmentExists(department_id) == department_id \in DOMAIN departments

\* SELECT ... FROM tasks WHERE id = %s
TaskExists(task_id) == task_id \in DOMAIN tasks

\* mutant of IsEmployee: every user counts as an employee of every department
IsEmployee_anyone(department_id, user_id) == TRUE

\* SELECT 1 FROM department_employees WHERE department_id = %s AND user_id = %s
IsEmployee(department_id, user_id) == <<department_id, user_id>> \in department_employees

\* SELECT ... FROM users WHERE username = %s  (username is UNIQUE)
UserIdByUsername(username) ==
    IF \E i \in DOMAIN users : users[i].username = username
    THEN CHOOSE i \in DOMAIN users : users[i].username = username
    ELSE None

\* mutant of verify_password: any password is taken
verify_password_any(user, password) == TRUE

\* User.verify_password
verify_password(user, password) == hash_password(password) = user.password_hash

\* ---- NotificationService ----

\* mutant of create_notification: the row is inserted as already read
create_notification_read(notifs, user_id, message, notification_type, related_id) ==
    IF user_id \notin DOMAIN users THEN notifs
    ELSE Append(notifs, [user_id |-> user_id, message |-> message,
                         type |-> notification_type, related_id |-> related_id,
                         is_read |-> TRUE])

\* create_notification: INSERT INTO notifications, is_read defaults to FALSE.
\* user_id REFERENCES users(id): for an id that names no row the INSERT raises, is
\* rolled back and leaves the table as it was.  No caller in the source passes such an
\* id: create_task and assign_task look the assignee up first, the other recipients
\* are the created_by and assigned_to of a task row, and no row is ever deleted
create_notification(notifs, user_id, message, notification_type, related_id) ==
    IF user_id \notin DOMAIN users THEN notifs
    ELSE Append(notifs, [user_id |-> user_id, message |-> message,
                         type |-> notification_type, related_id |-> related_id,
                         is_read |-> FALSE])

\* the message of notify_task_assignment:
\* f"Вам назначена новая задача: {task_title} от пользователя {creator_name}"
assignment_message(task_title, creator_name) ==
    << "You are assigned a new task: ", task_title, " from user ", creator_name >>

\* mutant of notify_task_assignment: no notification when the assignee is the creator
notify_task_assignment_skip_creator(tasksNow, notifs, task_id, user_id) ==
    IF task_id \notin DOMAIN tasksNow \/ tasksNow[task_id].created_by \notin DOMAIN users
       \/ tasksNow[task_id].created_by = user_id
    THEN notifs
    ELSE create_notification(notifs, user_id,
                             assignment_message(tasksNow[task_id].title,
                                                users[tasksNow[task_id].created_by].full_name),
                             "task_assignment", task_id)

\* notify_task_assignment, given the tasks table it reads: the SELECT joins the task
\* with its creator's users row
notify_task_assignment(tasksNow, notifs, task_id, user_id) ==
    IF task_id \notin DOMAIN tasksNow \/ tasksNow[task_id].created_by \notin DOMAIN users
    THEN notifs
    ELSE create_notification(notifs, user_id,
                             assignment_message(tasksNow[task_id].title,
                                                users[tasksNow[task_id].created_by].full_name),
                             "task_assignment", task_id)

\* UPDATE notifications SET is_read = TRUE WHERE id = %s
set_read(notifs, notification_id) ==
    [i \in DOMAIN notifs |->
        IF i = notification_id THEN [notifs[i] EXCEPT !.is_read = TRUE] ELSE notifs[i]]

\* mark_notification_as_read: no session is asked for; an id with no row updates
\* nothing and the method still returns True
MarkNotificationAsRead(e, notification_id) ==
    /\ notifications' = set_read(notifications, notification_id)
    /\ last' = [op |-> "mark_notification_as_read", engine |-> e,
                notification |-> notification_id, result |-> "ok",
                before |-> [notifications |-> notifications]]
    /\ UNCHANGED <<users, departments, department_employees, tasks, task_comments,
                   current_user, calls>>

\* mutant of set_all_read: SET is_read = NOT is_read, with no test of the flag
set_all_read_toggle(notifs, user_id) ==
    [i \in DOMAIN notifs |->
        IF notifs[i].user_id = user_id
        THEN [notifs[i] EXCEPT !.is_read = ~notifs[i].is_read]
        ELSE notifs[i]]

\* UPDATE notifications SET is_read = TRUE WHERE user_id = %s AND is_read = FALSE
set_all_read(notifs, user_id) ==
    [i \in DOMAIN notifs |->
        IF notifs[i].user_id = user_id /\ ~notifs[i].is_read
        THEN [notifs[i] EXCEPT !.is_read = TRUE]
        ELSE notifs[i]]

\* mark_all_notifications_as_read; repeats tells whether the call before this one was
\* mark_all_notifications_as_read for the same user
MarkAllNotificationsAsRead(e, user_id) ==
    /\ notifications' = set_all_read(notifications, user_id)
    /\ last' = [op |-> "mark_all_notifications_as_read", engine |-> e,
                user |-> user_id, result |-> "ok",
                repeats |-> (last.op = "mark_all_notifications_as_read"
                             /\ last.user = user_id),
                before |-> [notifications |-> notifications]]
    /\ UNCHANGED <<users, departments, department_employees, tasks, task_comments,
                   current_user, calls>>

\* ---- TaskManager: session ----

\* mutant of Login: a failed attempt ends the session
Login_failed_logs_out(e, username, password) ==
    LET uid == UserIdByUsername(username) IN
    /\ IF uid # None /\ verify_password(users[uid], password)
       THEN /\ current_user' = [current_user EXCEPT ![e] =
                                   [id |-> uid, username |-> users[uid].username,
                                    is_admin |-> users[uid].is_admin]]
            /\ last' = [op |-> "login", engine |-> e, username |-> username,
                        password |-> password, result |-> "ok"]
       ELSE /\ current_user' = [current_user EXCEPT ![e] = NoUser]
            /\ last' = [op |-> "login", engine |-> e, username |-> username,
                        password |-> password, result |-> "failed"]
    /\ UNCHANGED <<db, calls>>

\* login
Login(e, username, password) ==
    LET uid == UserIdByUsername(username) IN
    /\ IF uid # None /\ verify_password(users[uid], password)
       THEN /\ current_user' = [current_user EXCEPT ![e] =
                                   [id |-> uid, username |-> users[uid].username,
                                    is_admin |-> users[uid].is_admin]]
            /\ last' = [op |-> "login", engine |-> e, username |-> username,
                        password |-> password, result |-> "ok"]
       ELSE /\ UNCHANGED current_user
            /\ last' = [op |-> "login", engine |-> e, username |-> username,
                        password |-> password, result |-> "failed"]
    /\ UNCHANGED <<db, calls>>

\* logout
Logout(e) ==
    /\ current_user' = [current_user EXCEPT ![e] = NoUser]
    /\ last' = [op |-> "logout", engine |-> e, result |-> "ok"]
    /\ UNCHANGED <<db, calls>>

\* ---- TaskManager: departments ----

\* mutant of create_department_result: any existing user may be made head
create_department_result_any_head(cu, head_id) ==
    IF cu = NoUser \/ ~cu.is_admin THEN "permission_denied"
    ELSE IF ~UserExists(head_id) THEN "user_not_found"
    ELSE "ok"

\* create_department: the value it returns
create_department_result(cu, head_id) ==
    IF cu = NoUser \/ ~cu.is_admin THEN "permission_denied"
    ELSE IF ~UserExists(head_id) THEN "user_not_found"
    ELSE IF ~users[head_id].is_admin THEN "head_not_admin"
    ELSE "ok"

CreateDepartment(e, head_id) ==
    LET r == create_department_result(current_user[e], head_id) IN
    /\ r = "ok" => Len(departments) < MaxDepartments
    /\ departments' = IF r = "ok" THEN Append(departments, [head_id |-> head_id])
                      ELSE departments
    /\ last' = [op |-> "create_department",
                before |-> [departments |-> departments,
                            department_employees |-> department_employees],
                engine |-> e, head |-> head_id, result |-> r,
                ret |-> IF r = "ok" THEN Len(departments) + 1 ELSE None]
    /\ UNCHANGED <<users, department_employees, tasks, notifications, task_comments,
                   current_user, calls>>

\* mutant of add_employee_result: a user already in the department is added again
add_employee_result_again(cu, user_id, department_id) ==
    IF cu = NoUser \/ ~cu.is_admin THEN "permission_denied"
    ELSE IF ~UserExists(user_id) THEN "user_not_found"
    ELSE IF ~DepartmentExists(department_id) THEN "department_not_found"
    ELSE "ok"

\* add_employee_to_department: the value it returns
add_employee_result(cu, user_id, department_id) ==
    IF cu = NoUser \/ ~cu.is_admin THEN "permission_denied"
    ELSE IF ~UserExists(user_id) THEN "user_not_found"
    ELSE IF ~DepartmentExists(department_id) THEN "department_not_found"
    ELSE IF IsEmployee(department_id, user_id) THEN "already_member"
    ELSE "ok"

AddEmployeeToDepartment(e, user_id, department_id) ==
    LET r == add_employee_result(current_user[e], user_id, department_id) IN
    /\ department_employees' = IF r = "ok"
                               THEN department_employees \cup {<<department_id, user_id>>}
                               ELSE department_employees
    /\ last' = [op |-> "add_employee_to_department",
                before |-> [departments |-> departments,
                            department_employees |-> department_employees],
                engine |-> e, user |-> user_id,
                department |-> department_id, result |-> r]
    /\ UNCHANGED <<users, departments, tasks, notifications, task_comments,
                   current_user, calls>>

\* ---- TaskManager: create_task ----

\* mutant of create_task_result: the membership check is skipped for an admin
create_task_result_admin_any_assignee(cu, department_id, assigned_to) ==
    IF cu = NoUser THEN "not_logged_in"
    ELSE IF department_id # None /\ ~DepartmentExists(department_id)
        THEN "department_not_found"
    ELSE IF department_id # None /\ ~cu.is_admin
            /\ departments[department_id].head_id # cu.id
        THEN "permission_denied"
    ELSE IF assigned_to # None /\ ~UserExists(assigned_to) THEN "user_not_found"
    ELSE IF assigned_to # None /\ department_id # None /\ ~cu.is_admin
            /\ ~IsEmployee(department_id, assigned_to)
        THEN "not_member"
    ELSE "ok"

\* mutant of create_task_result: the department permission check is left out
create_task_result_no_permission_check(cu, department_id, assigned_to) ==
    IF cu = NoUser THEN "not_logged_in"
    ELSE IF department_id # None /\ ~DepartmentExists(department_id)
        THEN "department_not_found"
    ELSE IF assigned_to # None /\ ~UserExists(assigned_to) THEN "user_not_found"
    ELSE IF assigned_to # None /\ department_id # None
            /\ ~IsEmployee(department_id, assigned_to)
        THEN "not_member"
    ELSE "ok"

\* the checks of create_task before the INSERT: the value returned, "ok" to go on
create_task_result(cu, department_id, assigned_to) ==
    IF cu = NoUser THEN "not_logged_in"
    ELSE IF department_id # None /\ ~DepartmentExists(department_id)
        THEN "department_not_found"
    ELSE IF department_id # None /\ ~cu.is_admin
            /\ departments[department_id].head_id # cu.id
        THEN "permission_denied"
    ELSE IF assigned_to # None /\ ~UserExists(assigned_to) THEN "user_not_found"
    ELSE IF assigned_to # None /\ department_id # None
            /\ ~IsEmployee(department_id, assigned_to)
        THEN "not_member"
    ELSE "ok"

\* the title create_task is called with in the example run ("Настройка сервера")
TaskTitle == "Server setup"

\* mutant of new_task: the status column is left to a default the code does not use
new_task_default_status(cu, department_id, assigned_to) ==
    [title |-> TaskTitle, created_by |-> cu.id, assigned_to |-> assigned_to,
     department_id |-> department_id, status |-> "created", deadline |-> None]

\* the row create_task inserts when it is called with the title of the example run
\* and without a deadline
new_task(cu, department_id, assigned_to) ==
    [title |-> TaskTitle, created_by |-> cu.id, assigned_to |-> assigned_to,
     department_id |-> department_id, status |-> "new", deadline |-> None]

\* create_task called with a title
CreateTaskTitled(e, title, department_id, assigned_to) ==
    LET cu == current_user[e]
        r == create_task_result(cu, department_id, assigned_to)
        task_id == Len(tasks) + 1
        inserted == Append(tasks, [new_task(cu, department_id, assigned_to)
                                       EXCEPT !.title = title])
        notified == IF assigned_to # None
                    THEN notify_task_assignment(inserted, notifications, task_id, assigned_to)
                    ELSE notifications
    IN
    /\ r = "ok" => Len(tasks) < MaxTasks /\ Len(notified) <= MaxNotifications
    /\ tasks' = IF r = "ok" THEN inserted ELSE tasks
    /\ notifications' = IF r = "ok" THEN notified ELSE notifications
    /\ last' = [op |-> "create_task", before |-> [tasks |-> tasks, notifications |-> notifications],
                engine |-> e, title |-> title, department |-> department_id,
                user |-> assigned_to, result |-> r,
                ret |-> IF r = "ok" THEN task_id ELSE None]
    /\ UNCHANGED <<users, departments, department_employees, task_comments,
                   current_user, calls>>

\* create_task called with the title of the example run
CreateTask(e, department_id, assigned_to) ==
    CreateTaskTitled(e, TaskTitle, department_id, assigned_to)

\* create_task called with a deadline.  A deadline is a number of days from the day of
\* the run, which lasts less than a day: negative when it has passed, None when the
\* task has no deadline
CreateTaskDue(e, department_id, assigned_to, deadline) ==
    LET cu == current_user[e]
        r == create_task_result(cu, department_id, assigned_to)
        task_id == Len(tasks) + 1
        inserted == Append(tasks, [new_task(cu, department_id, assigned_to)
                                       EXCEPT !.deadline = deadline])
        notified == IF assigned_to # None
                    THEN notify_task_assignment(inserted, notifications, task_id, assigned_to)
                    ELSE notifications
    IN
    /\ r = "ok" => Len(tasks) < MaxTasks /\ Len(notified) <= MaxNotifications
    /\ tasks' = IF r = "ok" THEN inserted ELSE tasks
    /\ notifications' = IF r = "ok" THEN notified ELSE notifications
    /\ last' = [op |-> "create_task", before |-> [tasks |-> tasks, notifications |-> notifications],
                engine |-> e, title |-> TaskTitle, department |-> department_id,
                user |-> assigned_to, deadline |-> deadline, result |-> r,
                ret |-> IF r = "ok" THEN task_id ELSE None]
    /\ UNCHANGED <<users, departments, department_employees, task_comments,
                   current_user, calls>>

\* ---- TaskManager: assign_task ----

\* mutant of has_assign_permission: the assignee may assign too
has_assign_permission_assignee(cu, task) ==
    \/ cu.is_admin
    \/ cu.id = task.created_by
    \/ cu.id = task.assigned_to
    \/ /\ task.department_id # None
       /\ DepartmentExists(task.department_id)
       /\ departments[task.department_id].head_id = cu.id

\* the permission check of assign_task on the task row it fetched
has_assign_permission(cu, task) ==
    \/ cu.is_admin
    \/ cu.id = task.created_by
    \/ /\ task.department_id # None
       /\ DepartmentExists(task.department_id)
       /\ departments[task.department_id].head_id = cu.id

\* mutant of assign_task_result: the membership check is skipped for an admin
assign_task_result_admin_any_target(cu, task_id, user_id) ==
    IF cu = NoUser THEN "not_logged_in"
    ELSE IF ~TaskExists(task_id) THEN "task_not_found"
    ELSE IF ~has_assign_permission(cu, tasks[task_id]) THEN "permission_denied"
    ELSE IF ~UserExists(user_id) THEN "user_not_found"
    ELSE IF tasks[task_id].department_id # None /\ ~cu.is_admin
            /\ ~IsEmployee(tasks[task_id].department_id, user_id)
        THEN "not_member"
    ELSE "ok"

\* the checks of assign_task before the UPDATE: the value returned, "ok" to go on
assign_task_result(cu, task_id, user_id) ==
    IF cu = NoUser THEN "not_logged_in"
    ELSE IF ~TaskExists(task_id) THEN "task_not_found"
    ELSE IF ~has_assign_permission(cu, tasks[task_id]) THEN "permission_denied"
    ELSE IF ~UserExists(user_id) THEN "user_not_found"
    ELSE IF tasks[task_id].department_id # None
            /\ ~IsEmployee(tasks[task_id].department_id, user_id)
        THEN "not_member"
    ELSE "ok"

\* mutant of assign_update: only a new task is moved to in-progress
assign_update_new_only(tasksNow, task_id, user_id) ==
    IF task_id \in DOMAIN tasksNow
    THEN [tasksNow EXCEPT ![task_id].assigned_to = user_id,
                          ![task_id].status = IF @ = "new" THEN "in_progress" ELSE @]
    ELSE tasksNow

\* mutant of assign_update: a task that has an assignee keeps it
assign_update_keep_assignee(tasksNow, task_id, user_id) ==
    IF task_id \in DOMAIN tasksNow
    THEN [tasksNow EXCEPT ![task_id].assigned_to = IF @ = None THEN user_id ELSE @,
                          ![task_id].status = "in_progress"]
    ELSE tasksNow

\* UPDATE tasks SET assigned_to = %s, status = 'в работе' WHERE id = %s
assign_update(tasksNow, task_id, user_id) ==
    IF task_id \in DOMAIN tasksNow
    THEN [tasksNow EXCEPT ![task_id].assigned_to = user_id,
                          ![task_id].status = "in_progress"]
    ELSE tasksNow

\* mutant of AssignTask: the target is notified although the call is refused
AssignTask_notify_refused(e, task_id, user_id) ==
    LET cu == current_user[e]
        r == assign_task_result(cu, task_id, user_id)
        updated == assign_update(tasks, task_id, user_id)
        notified == IF UserExists(user_id)
                    THEN notify_task_assignment(tasks, notifications, task_id, user_id)
                    ELSE notifications
    IN
    /\ Len(notified) <= MaxNotifications
    /\ tasks' = IF r = "ok" THEN updated ELSE tasks
    /\ notifications' = notified
    /\ last' = [op |-> "assign_task", before |-> [tasks |-> tasks, notifications |-> notifications],
                engine |-> e, task |-> task_id, user |-> user_id,
                result |-> r]
    /\ UNCHANGED <<users, departments, department_employees, task_comments,
                   current_user, calls>>

AssignTask(e, task_id, user_id) ==
    LET cu == current_user[e]
        r == assign_task_result(cu, task_id, user_id)
        updated == assign_update(tasks, task_id, user_id)
        notified == notify_task_assignment(updated, notifications, task_id, user_id)
    IN
    /\ r = "ok" => Len(notified) <= MaxNotifications
    /\ tasks' = IF r = "ok" THEN updated ELSE tasks
    /\ notifications' = IF r = "ok" THEN notified ELSE notifications
    /\ last' = [op |-> "assign_task", before |-> [tasks |-> tasks, notifications |-> notifications],
                engine |-> e, task |-> task_id, user |-> user_id,
                result |-> r]
    /\ UNCHANGED <<users, departments, department_employees, task_comments,
                   current_user, calls>>

\* ---- TaskManager: update_task_status ----

\* mutant of status_change_recipients: only the creator is notified
status_change_recipients_creator_only(task) ==
    IF task.created_by # None THEN {task.created_by} ELSE {}

\* notify_task_status_change: the users to notify for the task row it fetched
status_change_recipients(task) ==
    (IF task.created_by # None THEN {task.created_by} ELSE {})
    \cup (IF task.assigned_to # None /\ task.assigned_to # task.created_by
          THEN {task.assigned_to} ELSE {})

\* the orders in which "for user_id in notify_users" may go through the set
\* notify_users: the ids are uuid strings and a set of strings is iterated in the
\* order of their hashes, which differs from one process to the next
Orders(recipients) ==
    IF recipients = {} THEN { << >> }
    ELSE {order \in [1..Cardinality(recipients) -> recipients] :
             \A u \in recipients : \E i \in 1..Cardinality(recipients) : order[i] = u}

\* one create_notification per user of the set, in the order the set is iterated;
\* every user of the set gets the same message
RECURSIVE notify_each(_, _, _, _, _)
notify_each(notifs, order, message, notification_type, related_id) ==
    IF order = << >> THEN notifs
    ELSE notify_each(create_notification(notifs, Head(order), message, notification_type,
                                         related_id),
                     Tail(order), message, notification_type, related_id)

\* status_label of notify_task_status_change: the dictionary's word for the status,
\* the status itself when the dictionary has none ('новая' -> 'создана', 'в работе' ->
\* 'взята в работу', 'выполнена' and 'отменена' -> themselves)
status_label(new_status) ==
    IF new_status = "new" THEN "created"
    ELSE IF new_status = "in_progress" THEN "taken into work"
    ELSE new_status

\* the message of notify_task_status_change: f"Задача '{task_title}' {status_label}"
status_change_message(task_title, new_status) ==
    << "Task '", task_title, "' ", status_label(new_status) >>

\* the orders in which notify_task_status_change may go through its notify_users
status_change_orders(tasksNow, task_id) ==
    IF task_id \notin DOMAIN tasksNow THEN { << >> }
    ELSE Orders(status_change_recipients(tasksNow[task_id]))

\* mutant of notify_task_status_change: creator and assignee are notified one after
\* the other, without looking whether they are the same user
notify_task_status_change_both(tasksNow, notifs, task_id, new_status, order) ==
    IF task_id \notin DOMAIN tasksNow THEN notifs
    ELSE LET t == tasksNow[task_id]
             message == status_change_message(t.title, new_status)
             first == create_notification(notifs, t.created_by, message,
                                          "task_status_change", task_id)
         IN IF t.assigned_to # None
            THEN create_notification(first, t.assigned_to, message,
                                     "task_status_change", task_id)
            ELSE first

\* notify_task_status_change, given the tasks table it reads and the order in which
\* its set of users is iterated
notify_task_status_change(tasksNow, notifs, task_id, new_status, order) ==
    IF task_id \notin DOMAIN tasksNow THEN notifs
    ELSE notify_each(notifs, order,
                     status_change_message(tasksNow[task_id].title, new_status),
                     "task_status_change", task_id)

\* mutant of has_status_permission: the assignee is left out
has_status_permission_no_assignee(cu, task) ==
    \/ cu.is_admin
    \/ cu.id = task.created_by
    \/ /\ task.department_id # None
       /\ DepartmentExists(task.department_id)
       /\ departments[task.department_id].head_id = cu.id

\* the permission check of update_task_status on the task row it fetched
has_status_permission(cu, task) ==
    \/ cu.is_admin
    \/ cu.id = task.created_by
    \/ cu.id = task.assigned_to
    \/ /\ task.department_id # None
       /\ DepartmentExists(task.department_id)
       /\ departments[task.department_id].head_id = cu.id

\* mutant of update_task_status_result: the status is not validated
update_task_status_result_unvalidated(cu, task_id, status) ==
    IF cu = NoUser THEN "not_logged_in"
    ELSE IF ~TaskExists(task_id) THEN "task_not_found"
    ELSE IF ~has_status_permission(cu, tasks[task_id]) THEN "permission_denied"
    ELSE "ok"

\* the checks of update_task_status before the UPDATE: the value returned, "ok" to go on
update_task_status_result(cu, task_id, status) ==
    IF cu = NoUser THEN "not_logged_in"
    ELSE IF status \notin valid_statuses THEN "invalid_status"
    ELSE IF ~TaskExists(task_id) THEN "task_not_found"
    ELSE IF ~has_status_permission(cu, tasks[task_id]) THEN "permission_denied"
    ELSE "ok"

\* mutant of status_update: a completed or cancelled task keeps its status
status_update_terminal(tasksNow, task_id, status) ==
    IF task_id \in DOMAIN tasksNow /\ tasksNow[task_id].status \notin {"completed", "cancelled"}
    THEN [tasksNow EXCEPT ![task_id].status = status]
    ELSE tasksNow

\* mutant of status_update: a cancelled task also loses its assignee
status_update_unassigns(tasksNow, task_id, status) ==
    IF task_id \in DOMAIN tasksNow
    THEN [tasksNow EXCEPT ![task_id].status = status,
                          ![task_id].assigned_to = IF status = "cancelled" THEN None ELSE @]
    ELSE tasksNow

\* UPDATE tasks SET status = %s WHERE id = %s
status_update(tasksNow, task_id, status) ==
    IF task_id \in DOMAIN tasksNow
    THEN [tasksNow EXCEPT ![task_id].status = status]
    ELSE tasksNow

\* mutant of UpdateTaskStatus: the UPDATE runs before the permission check
UpdateTaskStatus_update_first(e, task_id, status) ==
    LET cu == current_user[e]
        r == update_task_status_result(cu, task_id, status)
        updated == status_update(tasks, task_id, status)
    IN
    \E order \in status_change_orders(updated, task_id) :
    LET notified == notify_task_status_change(updated, notifications, task_id, status, order)
    IN
    /\ r = "ok" => Len(notified) <= MaxNotifications
    /\ tasks' = IF r \in {"ok", "permission_denied"} THEN updated ELSE tasks
    /\ notifications' = IF r = "ok" THEN notified ELSE notifications
    /\ last' = [op |-> "update_task_status",
                before |-> [tasks |-> tasks, notifications |-> notifications],
                engine |-> e, task |-> task_id, status |-> status, result |-> r]
    /\ UNCHANGED <<users, departments, department_employees, task_comments,
                   current_user, calls>>

UpdateTaskStatus(e, task_id, status) ==
    LET cu == current_user[e]
        r == update_task_status_result(cu, task_id, status)
        updated == status_update(tasks, task_id, status)
    IN
    \E order \in status_change_orders(updated, task_id) :
    LET notified == notify_task_status_change(updated, notifications, task_id, status, order)
    IN
    /\ r = "ok" => Len(notified) <= MaxNotifications
    /\ tasks' = IF r = "ok" THEN updated ELSE tasks
    /\ notifications' = IF r = "ok" THEN notified ELSE notifications
    /\ last' = [op |-> "update_task_status", before |-> [tasks |-> tasks, notifications |-> notifications],
                engine |-> e, task |-> task_id,
                status |-> status, result |-> r]
    /\ UNCHANGED <<users, departments, department_employees, task_comments,
                   current_user, calls>>

\* ---- TaskManager: comments ----

\* the texts a caller may pass
CommentTexts == {"text"}

\* mutant of comment_recipients: the commenter is not left out
comment_recipients_with_commenter(commenter_id, task) ==
    (IF task.created_by # None THEN {task.created_by} ELSE {})
    \cup (IF task.assigned_to # None /\ task.assigned_to # task.created_by
          THEN {task.assigned_to} ELSE {})

\* notify_new_comment: the users to notify, for the comment's author and its task row
comment_recipients(commenter_id, task) ==
    (IF task.created_by # None /\ task.created_by # commenter_id
     THEN {task.created_by} ELSE {})
    \cup (IF task.assigned_to # None /\ task.assigned_to # commenter_id
             /\ task.assigned_to # task.created_by
          THEN {task.assigned_to} ELSE {})

\* whether the SELECT of notify_new_comment, which joins task_comments, tasks and
\* users, finds the comment
comment_found(commentsNow, comment_id) ==
    /\ comment_id \in DOMAIN commentsNow
    /\ commentsNow[comment_id].task_id \in DOMAIN tasks
    /\ commentsNow[comment_id].user_id \in DOMAIN users

\* the orders in which notify_new_comment may go through its notify_users
comment_orders(commentsNow, comment_id) ==
    IF ~comment_found(commentsNow, comment_id) THEN { << >> }
    ELSE Orders(comment_recipients(commentsNow[comment_id].user_id,
                                   tasks[commentsNow[comment_id].task_id]))

\* the message of notify_new_comment:
\* f"Новый комментарий от {commenter_name} к задаче '{task_title}'"
new_comment_message(commenter_name, task_title) ==
    << "New comment from ", commenter_name, " on task '", task_title, "'" >>

\* notify_new_comment, given the comments table it reads and the order in which its
\* set of users is iterated
notify_new_comment(commentsNow, notifs, comment_id, order) ==
    IF ~comment_found(commentsNow, comment_id) THEN notifs
    ELSE notify_each(notifs, order,
                     new_comment_message(users[commentsNow[comment_id].user_id].full_name,
                                         tasks[commentsNow[comment_id].task_id].title),
                     "new_comment", commentsNow[comment_id].task_id)

\* mutant of add_task_comment_result: only a principal who may read the task's
\* comments may add one
add_task_comment_result_related_only(cu, task_id) ==
    IF cu = NoUser THEN "not_logged_in"
    ELSE IF ~TaskExists(task_id) THEN "task_not_found"
    ELSE IF ~(cu.is_admin \/ cu.id \in {tasks[task_id].created_by, tasks[task_id].assigned_to}
              \/ IsEmployee(tasks[task_id].department_id, cu.id))
        THEN "permission_denied"
    ELSE "ok"

\* the checks of add_task_comment before the INSERT: the value returned, "ok" to go on
add_task_comment_result(cu, task_id) ==
    IF cu = NoUser THEN "not_logged_in"
    ELSE IF ~TaskExists(task_id) THEN "task_not_found"
    ELSE "ok"

\* the row add_task_comment inserts
new_comment(cu, task_id, comment_text) ==
    [task_id |-> task_id, user_id |-> cu.id, text |-> comment_text]

AddTaskComment(e, task_id, comment_text) ==
    LET cu == current_user[e]
        r == add_task_comment_result(cu, task_id)
        comment_id == Len(task_comments) + 1
        inserted == Append(task_comments, new_comment(cu, task_id, comment_text))
    IN
    \E order \in comment_orders(inserted, comment_id) :
    LET notified == notify_new_comment(inserted, notifications, comment_id, order) IN
    /\ r = "ok" => Len(task_comments) < MaxComments /\ Len(notified) <= MaxNotifications
    /\ task_comments' = IF r = "ok" THEN inserted ELSE task_comments
    /\ notifications' = IF r = "ok" THEN notified ELSE notifications
    /\ last' = [op |-> "add_task_comment",
                before |-> [tasks |-> tasks, notifications |-> notifications,
                            task_comments |-> task_comments],
                engine |-> e, task |-> task_id, text |-> comment_text, result |-> r,
                ret |-> IF r = "ok" THEN comment_id ELSE None]
    /\ UNCHANGED <<users, departments, department_employees, tasks, current_user, calls>>

\* mutant of has_comments_permission: department members are left out
has_comments_permission_no_member(cu, task) ==
    \/ cu.is_admin
    \/ cu.id \in {task.created_by, task.assigned_to}
    \/ /\ task.department_id # None
       /\ DepartmentExists(task.department_id)
       /\ departments[task.department_id].head_id = cu.id

\* the permission check of get_task_comments on the task row it fetched
has_comments_permission(cu, task) ==
    \/ cu.is_admin
    \/ cu.id \in {task.created_by, task.assigned_to}
    \/ /\ task.department_id # None
       /\ \/ /\ DepartmentExists(task.department_id)
             /\ departments[task.department_id].head_id = cu.id
          \/ IsEmployee(task.department_id, cu.id)

\* the checks of get_task_comments before the SELECT of the comments
get_task_comments_result(cu, task_id) ==
    IF cu = NoUser THEN "not_logged_in"
    ELSE IF ~TaskExists(task_id) THEN "task_not_found"
    ELSE IF ~has_comments_permission(cu, tasks[task_id]) THEN "permission_denied"
    ELSE "ok"

\* SELECT c.id, c.text, c.created_at, u.full_name FROM task_comments c
\* JOIN users u ON c.user_id = u.id WHERE c.task_id = %s ORDER BY c.created_at ASC:
\* the rows of the task, oldest first (rows are numbered in insertion order; the
\* author's name is stood for by the author's id)
RECURSIVE comments_of(_, _, _)
comments_of(commentsNow, task_id, i) ==
    IF i > Len(commentsNow) THEN << >>
    ELSE (IF commentsNow[i].task_id = task_id /\ commentsNow[i].user_id \in DOMAIN users
          THEN << [id |-> i, text |-> commentsNow[i].text, user |-> commentsNow[i].user_id] >>
          ELSE << >>)
         \o comments_of(commentsNow, task_id, i + 1)

GetTaskComments(e, task_id) ==
    LET r == get_task_comments_result(current_user[e], task_id) IN
    /\ last' = [op |-> "get_task_comments", engine |-> e, task |-> task_id, result |-> r,
                ret |-> IF r = "ok" THEN comments_of(task_comments, task_id, 1) ELSE << >>]
    /\ UNCHANGED <<db, current_user, calls>>

\* ---- TaskManager: task lists and statistics ----

\* page and per_page when the caller leaves them out
DefaultPage == 1
DefaultPerPage == 20

\* ORDER BY created_at DESC: the rows of a set of tasks, newest first (rows are
\* numbered in insertion order), each with the status it shows
RECURSIVE newest_first(_)
newest_first(ids) ==
    IF ids = {} THEN << >>
    ELSE LET m == CHOOSE x \in ids : \A y \in ids : y <= x IN
         << [id |-> m, status |-> tasks[m].status] >> \o newest_first(ids \ {m})

\* mutant of limit_offset: the offset is page * per_page
limit_offset_from_page(rows, page, per_page) ==
    LET offset == page * per_page
        upto == IF offset + per_page < Len(rows) THEN offset + per_page ELSE Len(rows)
    IN SubSeq(rows, offset + 1, upto)

\* LIMIT per_page OFFSET (page - 1) * per_page
limit_offset(rows, page, per_page) ==
    LET offset == (page - 1) * per_page
        upto == IF offset + per_page < Len(rows) THEN offset + per_page ELSE Len(rows)
    IN SubSeq(rows, offset + 1, upto)

\* status=None, the default: "if status:" is as false for it as for the empty string
NoStatus == ""

\* AND t.status = %s, added when a status is given
status_filter(ids, status) ==
    IF status = NoStatus THEN ids ELSE {i \in ids : tasks[i].status = status}

\* mutant of get_user_result: any logged-in user may name any user
get_user_result_anyone(cu, user_id) ==
    IF cu = NoUser THEN "not_logged_in" ELSE "ok"

\* get_user_tasks and get_user_statistics: the checks before the SELECT
get_user_result(cu, user_id) ==
    IF cu = NoUser THEN "not_logged_in"
    ELSE IF user_id # None /\ user_id # cu.id /\ ~cu.is_admin THEN "permission_denied"
    ELSE "ok"

\* the user whose rows are read: the one given, else the session's
user_or_self(cu, user_id) == IF user_id = None THEN cu.id ELSE user_id

GetUserTasks(e, user_id, status, page, per_page) ==
    LET cu == current_user[e]
        r == get_user_result(cu, user_id)
        uid == user_or_self(cu, user_id)
        ids == {i \in DOMAIN tasks : tasks[i].created_by = uid \/ tasks[i].assigned_to = uid}
    IN
    /\ last' = [op |-> "get_user_tasks", engine |-> e, user |-> user_id, status |-> status,
                page |-> page, per_page |-> per_page, result |-> r,
                ret |-> IF r = "ok"
                        THEN limit_offset(newest_first(status_filter(ids, status)),
                                          page, per_page)
                        ELSE << >>]
    /\ UNCHANGED <<db, current_user, calls>>

\* mutant of has_department_permission: the employees of the department are left out
has_department_permission_no_employee(cu, department_id) ==
    \/ cu.is_admin
    \/ departments[department_id].head_id = cu.id

\* the permission check of get_department_tasks on the department row it fetched
has_department_permission(cu, department_id) ==
    \/ cu.is_admin
    \/ departments[department_id].head_id = cu.id
    \/ IsEmployee(department_id, cu.id)

\* get_department_tasks: the checks before the SELECT
get_department_tasks_result(cu, department_id) ==
    IF cu = NoUser THEN "not_logged_in"
    ELSE IF ~DepartmentExists(department_id) THEN "department_not_found"
    ELSE IF ~has_department_permission(cu, department_id) THEN "permission_denied"
    ELSE "ok"

GetDepartmentTasks(e, department_id, status, page, per_page) ==
    LET r == get_department_tasks_result(current_user[e], department_id)
        ids == {i \in DOMAIN tasks : tasks[i].department_id = department_id}
    IN
    /\ last' = [op |-> "get_department_tasks", engine |-> e, department |-> department_id,
                status |-> status, result |-> r,
                ret |-> IF r = "ok"
                        THEN limit_offset(newest_first(status_filter(ids, status)),
                                          page, per_page)
                        ELSE << >>]
    /\ UNCHANGED <<db, current_user, calls>>

\* COUNT(*) FILTER (WHERE status = ...) for each of the four statuses, and their sum
status_counts(ids) ==
    LET count == [st \in valid_statuses |-> Cardinality({i \in ids : tasks[i].status = st})]
    IN [new |-> count["new"], in_progress |-> count["in_progress"],
        completed |-> count["completed"], cancelled |-> count["cancelled"],
        total |-> count["new"] + count["in_progress"] + count["completed"]
                  + count["cancelled"]]

\* mutant of not_closed: a cancelled task still counts as open
not_closed_but_cancelled(ids) == {i \in ids : tasks[i].status # "completed"}

\* status NOT IN ('выполнена', 'отменена'): the tasks that count for the deadlines
not_closed(ids) == {i \in ids : tasks[i].status \notin {"completed", "cancelled"}}

\* COUNT(*) FILTER (WHERE deadline < CURRENT_TIMESTAMP AND status NOT IN (...)), over
\* the rows WHERE assigned_to = %s AND deadline IS NOT NULL
overdue_count(ids) ==
    Cardinality({i \in not_closed(ids) : tasks[i].deadline # None /\ tasks[i].deadline < 0})

\* COUNT(*) FILTER (WHERE deadline BETWEEN CURRENT_TIMESTAMP AND CURRENT_TIMESTAMP +
\* INTERVAL '1 day' AND status NOT IN (...)), over the same rows
due_today_count(ids) ==
    Cardinality({i \in not_closed(ids) :
                    tasks[i].deadline # None /\ tasks[i].deadline >= 0
                    /\ tasks[i].deadline <= 1})

\* get_user_statistics
GetUserStatistics(e, user_id) ==
    LET cu == current_user[e]
        r == get_user_result(cu, user_id)
        uid == user_or_self(cu, user_id)
    IN
    /\ last' = [op |-> "get_user_statistics", engine |-> e, user |-> user_id, result |-> r,
                ret |-> IF r = "ok"
                        THEN [assigned_tasks |->
                                  status_counts({i \in DOMAIN tasks : tasks[i].assigned_to = uid}),
                              created_tasks |->
                                  status_counts({i \in DOMAIN tasks : tasks[i].created_by = uid}),
                              deadlines |->
                                  [overdue |-> overdue_count(
                                       {i \in DOMAIN tasks : tasks[i].assigned_to = uid}),
                                   due_today |-> due_today_count(
                                       {i \in DOMAIN tasks : tasks[i].assigned_to = uid})]]
                        ELSE << >>]
    /\ UNCHANGED <<db, current_user, calls>>

\* ---- the task lifecycle: one engine, one call at a time ----

\* the calls made on engine 1, counted while the run may still grow

LoginCall(username, password) ==
    /\ ncalls < MaxCalls
    /\ Login(1, username, password)
    /\ ncalls' = ncalls + 1

LogoutCall ==
    /\ ncalls < MaxCalls
    /\ Logout(1)
    /\ ncalls' = ncalls + 1

CreateTaskCall(department_id, assigned_to) ==
    /\ ncalls < MaxCalls
    /\ CreateTask(1, department_id, assigned_to)
    /\ ncalls' = ncalls + 1

AssignTaskCall(task_id, user_id) ==
    /\ ncalls < MaxCalls
    /\ AssignTask(1, task_id, user_id)
    /\ ncalls' = ncalls + 1

UpdateTaskStatusCall(task_id, status) ==
    /\ ncalls < MaxCalls
    /\ UpdateTaskStatus(1, task_id, status)
    /\ ncalls' = ncalls + 1

Next ==
    \/ \E username \in Usernames, password \in Passwords : LoginCall(username, password)
    \/ LogoutCall
    \/ \E department_id \in {None} \cup DepartmentIdInputs,
          assigned_to \in {None} \cup UserIdInputs :
           CreateTaskCall(department_id, assigned_to)
    \/ \E task_id \in TaskIdInputs, user_id \in UserIdInputs : AssignTaskCall(task_id, user_id)
    \/ \E task_id \in TaskIdInputs, status \in valid_statuses \cup {"done"} :
           UpdateTaskStatusCall(task_id, status)

Spec == Init /\ [][Next]_vars

\* ---- comments on tasks: one engine, one call at a time ----

AddTaskCommentCall(task_id, comment_text) ==
    /\ ncalls < MaxCalls
    /\ AddTaskComment(1, task_id, comment_text)
    /\ ncalls' = ncalls + 1

GetTaskCommentsCall(task_id) ==
    /\ ncalls < MaxCalls
    /\ GetTaskComments(1, task_id)
    /\ ncalls' = ncalls + 1

\* the users who make the calls of the runs, with their passwords
Logins == { <<"admin1", "password123">>, <<"user1", "pass123">>, <<"user2", "pass123">> }

\* the status the commented tasks are moved to
CommentRunStatuses == {"completed"}

NextComments ==
    \/ \E login \in Logins : LoginCall(login[1], login[2])
    \/ LogoutCall
    \/ \E department_id \in {None} \cup DOMAIN SeedDepartments,
          assigned_to \in {None} \cup ActingUsers :
           CreateTaskCall(department_id, assigned_to)
    \/ \E task_id \in TaskIdInputs, status \in CommentRunStatuses :
           UpdateTaskStatusCall(task_id, status)
    \/ \E task_id \in TaskIdInputs, comment_text \in CommentTexts :
           AddTaskCommentCall(task_id, comment_text)
    \/ \E task_id \in TaskIdInputs : GetTaskCommentsCall(task_id)

SpecComments == Init /\ [][NextComments]_vars

\* ---- departments and their employees: one engine, one call at a time ----

\* a database in which register_user has been called for the four users of the
\* example run and create_department has not been called yet: no department and no
\* employee (the example run itself creates its department before it registers the
\* two employees)
InitDepartments ==
    /\ users = SeedUsers
    /\ departments = << >>
    /\ department_employees = {}
    /\ tasks = << >>
    /\ notifications = << >>
    /\ task_comments = << >>
    /\ current_user = [e \in Engines |-> NoUser]
    /\ calls = [c \in Callers |-> NoCall]
    /\ ncalls = 0
    /\ last = NoLast

CreateDepartmentCall(head_id) ==
    /\ ncalls < MaxCalls
    /\ CreateDepartment(1, head_id)
    /\ ncalls' = ncalls + 1

AddEmployeeToDepartmentCall(user_id, department_id) ==
    /\ ncalls < MaxCalls
    /\ AddEmployeeToDepartment(1, user_id, department_id)
    /\ ncalls' = ncalls + 1

NextDepartments ==
    \/ \E username \in Usernames, password \in Passwords : LoginCall(username, password)
    \/ LogoutCall
    \/ \E head_id \in UserIdInputs : CreateDepartmentCall(head_id)
    \/ \E user_id \in UserIdInputs, department_id \in DepartmentIdInputs :
           AddEmployeeToDepartmentCall(user_id, department_id)

SpecDepartments == InitDepartments /\ [][NextDepartments]_vars

\* ---- every operation that needs a session: one engine, one call at a time ----

GetUserTasksCall(user_id, status) ==
    /\ ncalls < MaxCalls
    /\ GetUserTasks(1, user_id, status, DefaultPage, DefaultPerPage)
    /\ ncalls' = ncalls + 1

GetDepartmentTasksCall(department_id, status) ==
    /\ ncalls < MaxCalls
    /\ GetDepartmentTasks(1, department_id, status, DefaultPage, DefaultPerPage)
    /\ ncalls' = ncalls + 1

GetUserStatisticsCall(user_id) ==
    /\ ncalls < MaxCalls
    /\ GetUserStatistics(1, user_id)
    /\ ncalls' = ncalls + 1

\* the users named in these runs: the two employees and an id that names no user
Employees == {3, 4}
OtherUsers == Employees \cup {Len(SeedUsers) + 1}

\* the statuses tried in these runs are a valid one and one that is not

NextAll ==
    \/ \E login \in Logins : LoginCall(login[1], login[2])
    \/ LogoutCall
    \/ \E head_id \in UserIdInputs : CreateDepartmentCall(head_id)
    \/ \E user_id \in OtherUsers, department_id \in DepartmentIdInputs :
           AddEmployeeToDepartmentCall(user_id, department_id)
    \/ \E department_id \in {None} \cup DepartmentIdInputs,
          assigned_to \in {None} \cup OtherUsers :
           CreateTaskCall(department_id, assigned_to)
    \/ \E task_id \in TaskIdInputs, user_id \in OtherUsers : AssignTaskCall(task_id, user_id)
    \/ \E task_id \in TaskIdInputs, status \in {"completed", "done"} :
           UpdateTaskStatusCall(task_id, status)
    \/ \E task_id \in TaskIdInputs, comment_text \in CommentTexts :
           AddTaskCommentCall(task_id, comment_text)
    \/ \E task_id \in TaskIdInputs : GetTaskCommentsCall(task_id)
    \/ \E user_id \in {None} \cup Employees : GetUserTasksCall(user_id, NoStatus)
    \/ \E department_id \in DepartmentIdInputs : GetDepartmentTasksCall(department_id, NoStatus)
    \/ \E user_id \in {None} \cup Employees : GetUserStatisticsCall(user_id)

SpecAll == Init /\ [][NextAll]_vars

\* ---- task lists and statistics: one engine, one call at a time ----

\* the status filters tried: none, and two of the statuses
StatusFilters == {NoStatus, "new", "completed"}

NextReads ==
    \/ \E login \in Logins : LoginCall(login[1], login[2])
    \/ LogoutCall
    \/ \E department_id \in {None} \cup DOMAIN SeedDepartments,
          assigned_to \in {None} \cup Employees :
           CreateTaskCall(department_id, assigned_to)
    \/ \E task_id \in TaskIdInputs, status \in CommentRunStatuses :
           UpdateTaskStatusCall(task_id, status)
    \/ \E user_id \in {None} \cup UserIdInputs, status \in StatusFilters :
           GetUserTasksCall(user_id, status)
    \/ \E department_id \in DepartmentIdInputs, status \in StatusFilters :
           GetDepartmentTasksCall(department_id, status)
    \/ \E user_id \in {None} \cup UserIdInputs : GetUserStatisticsCall(user_id)

SpecReads == Init /\ [][NextReads]_vars

\* ---- pages of get_user_tasks: one engine, one call at a time ----

GetUserTasksPageCall(user_id, status, page, per_page) ==
    /\ ncalls < MaxCalls
    /\ GetUserTasks(1, user_id, status, page, per_page)
    /\ ncalls' = ncalls + 1

\* the pages asked for are the first two, of one or two tasks each

NextPages ==
    \/ \E login \in Logins : LoginCall(login[1], login[2])
    \/ \E assigned_to \in {None} \cup Employees : CreateTaskCall(None, assigned_to)
    \/ \E task_id \in DOMAIN tasks, status \in CommentRunStatuses :
           UpdateTaskStatusCall(task_id, status)
    \/ \E user_id \in {None} \cup Employees, status \in StatusFilters,
          page \in {1, 2}, per_page \in {1, 2} :
           GetUserTasksPageCall(user_id, status, page, per_page)

SpecPages == Init /\ [][NextPages]_vars

\* ---- statistics and deadlines: one engine, one call at a time ----

CreateTaskDueCall(department_id, assigned_to, deadline) ==
    /\ ncalls < MaxCalls
    /\ CreateTaskDue(1, department_id, assigned_to, deadline)
    /\ ncalls' = ncalls + 1

\* the deadlines tried are yesterday and, as in the example run, five days ahead
NextStatistics ==
    \/ \E login \in Logins : LoginCall(login[1], login[2])
    \/ \E assigned_to \in {None} \cup Employees, deadline \in {-1, 5} :
           CreateTaskDueCall(None, assigned_to, deadline)
    \/ \E task_id \in DOMAIN tasks, status \in valid_statuses :
           UpdateTaskStatusCall(task_id, status)
    \/ \E user_id \in {None} \cup Employees : GetUserStatisticsCall(user_id)

SpecStatistics == Init /\ [][NextStatistics]_vars

\* ---- reading notifications: one engine, one call at a time ----

MarkNotificationAsReadCall(notification_id) ==
    /\ ncalls < MaxCalls
    /\ MarkNotificationAsRead(1, notification_id)
    /\ ncalls' = ncalls + 1

MarkAllNotificationsAsReadCall(user_id) ==
    /\ ncalls < MaxCalls
    /\ MarkAllNotificationsAsRead(1, user_id)
    /\ ncalls' = ncalls + 1

CreateTaskTitledCall(title, assigned_to) ==
    /\ ncalls < MaxCalls
    /\ CreateTaskTitled(1, title, None, assigned_to)
    /\ ncalls' = ncalls + 1

\* the titles tried are that of the example run and another; the notification ids
\* tried are those of the rows there can be, and one more

NextNotifications ==
    \/ \E login \in Logins : LoginCall(login[1], login[2])
    \/ \E title \in {TaskTitle, "Quarterly report"}, assigned_to \in {None} \cup ActingUsers :
           CreateTaskTitledCall(title, assigned_to)
    \/ \E task_id \in DOMAIN tasks, user_id \in ActingUsers :
           AssignTaskCall(task_id, user_id)
    \/ \E task_id \in DOMAIN tasks, status \in CommentRunStatuses :
           UpdateTaskStatusCall(task_id, status)
    \/ \E task_id \in DOMAIN tasks, comment_text \in CommentTexts :
           AddTaskCommentCall(task_id, comment_text)
    \/ \E notification_id \in 1..(MaxNotifications + 1) :
           MarkNotificationAsReadCall(notification_id)
    \/ \E user_id \in UserIdInputs : MarkAllNotificationsAsReadCall(user_id)

SpecNotifications == Init /\ [][NextNotifications]_vars

\* ---- notification and mail failures: one engine, one call at a time ----
\* Database.execute re-raises what the INSERT INTO notifications raises (the statement
\* is rolled back), nothing in NotificationService catches it, and the handler's
\* "except Exception" turns it into the handler's error message.  What the SMTP server
\* raises is caught in send_email_notification, which then returns False.  Unless the
\* call is made under one of the conditions below, the engine is constructed with SMTP
\* parameters, as in the example run, and every user has an address and the default
\* preferences, so that a mail goes out.

\* what a call is made under.  Nothing special; or one of the statements fails: the
\* first or the second INSERT INTO notifications of the call, the handler's own INSERT
\* or UPDATE; or no mail can go out: the engine was constructed without smtp_server or
\* sender_email, the recipients have no email address, their notification_preferences
\* have email off, the SMTP server fails
NoMail == {"smtp_unconfigured", "no_email", "email_disabled", "smtp_fails"}
Failures == {"insert_1_fails", "insert_2_fails", "write_fails", "smtp_fails"}
FaultInputs == {"none"} \cup Failures \cup NoMail

\* mutant of execute: no rollback, the statement's effect stays although it raised
execute_no_rollback(fault, before, after) == after

\* Database.execute on the handler's own statement: commit, or rollback and re-raise,
\* which leaves the table as it was
execute(fault, before, after) == IF fault = "write_fails" THEN before ELSE after

\* the position of the failing create_notification in the call, 0 for none
fail_at(fault) ==
    IF fault = "insert_1_fails" THEN 1 ELSE IF fault = "insert_2_fails" THEN 2 ELSE 0

\* mutant of send_email_notification: the recipient's preferences are not looked at
send_email_notification_any_preferences(fault, user_id) ==
    IF fault = "smtp_unconfigured" THEN FALSE
    ELSE IF ~UserExists(user_id) \/ fault = "no_email" THEN FALSE
    ELSE fault # "smtp_fails"

\* send_email_notification: whether the mail was sent.  False at once without SMTP
\* parameters; False when the user row is missing, has no address or has email off;
\* False when anything raised between building the message and sending it
send_email_notification(fault, user_id) ==
    IF fault = "smtp_unconfigured" THEN FALSE
    ELSE IF ~UserExists(user_id) \/ fault = "no_email" \/ fault = "email_disabled"
        THEN FALSE
    ELSE fault # "smtp_fails"

\* the loop over notify_users: create_notification, then send_email_notification, for
\* each user in turn, up to the create_notification that raises: the one the fault
\* names, or one for a user id that names no users row (user_id is NOT NULL and
\* REFERENCES users(id)), whose exception leaves the notify_* method like any other
RECURSIVE notify_until(_, _, _, _, _, _, _)
notify_until(out, order, message, notification_type, related_id, fault, k) ==
    IF order = << >> THEN out
    ELSE IF k = fail_at(fault) \/ ~UserExists(Head(order)) THEN [out EXCEPT !.raised = TRUE]
    ELSE LET u == Head(order) IN
         notify_until(
             [notifs |-> create_notification(out.notifs, u, message, notification_type,
                                             related_id),
              raised |-> FALSE, to |-> out.to,
              emailed |-> IF send_email_notification(fault, u)
                          THEN out.emailed \cup {u} ELSE out.emailed],
             Tail(order), message, notification_type, related_id, fault, k + 1)

\* a notify_* method run under a fault, going through its users in the given order:
\* the notifications table it leaves, whether it raised, and the users it mailed
notify_under(notifs, order, message, notification_type, related_id, fault) ==
    notify_until([notifs |-> notifs, raised |-> FALSE,
                  to |-> {order[i] : i \in DOMAIN order}, emailed |-> {}],
                 order, message, notification_type, related_id, fault, 1)

\* what the handler returns once its checks are made: its error message when its own
\* statement raised or, after the commit, when the notify_* method raised; its success
\* value otherwise
returned(r, out, fault) ==
    IF r # "ok" THEN r
    ELSE IF fault = "write_fails" \/ out.raised THEN "error"
    ELSE "ok"

\* whether the call gets as far as its notify_* method
notifies(r, fault) == r = "ok" /\ fault # "write_fails"

\* the record of a call made under a fault
fault_record(op, r, out, fault) ==
    [op |-> op, engine |-> 1, fault |-> fault, checks |-> r,
     committed |-> notifies(r, fault),
     recipients |-> IF notifies(r, fault) THEN out.to ELSE {},
     result |-> returned(r, out, fault),
     emailed |-> IF notifies(r, fault) THEN out.emailed ELSE {}]

\* create_task under a fault
CreateTaskFault(department_id, assigned_to, fault) ==
    LET cu == current_user[1]
        r == create_task_result(cu, department_id, assigned_to)
        inserted == Append(tasks, new_task(cu, department_id, assigned_to))
        out == notify_under(notifications,
                            IF assigned_to # None /\ UserExists(cu.id)
                            THEN << assigned_to >> ELSE << >>,
                            IF UserExists(cu.id)
                            THEN assignment_message(TaskTitle, users[cu.id].full_name)
                            ELSE << >>,
                            "task_assignment", Len(inserted), fault)
    IN
    /\ ncalls < MaxCalls /\ ncalls' = ncalls + 1
    /\ r = "ok" => Len(tasks) < MaxTasks /\ Len(out.notifs) <= MaxNotifications
    /\ tasks' = IF r = "ok" THEN execute(fault, tasks, inserted) ELSE tasks
    /\ notifications' = IF notifies(r, fault) THEN out.notifs ELSE notifications
    /\ last' = fault_record("create_task", r, out, fault)
    /\ UNCHANGED <<users, departments, department_employees, task_comments,
                   current_user, calls>>

\* assign_task under a fault
AssignTaskFault(task_id, user_id, fault) ==
    LET cu == current_user[1]
        r == assign_task_result(cu, task_id, user_id)
        updated == assign_update(tasks, task_id, user_id)
        out == notify_under(notifications,
                            IF TaskExists(task_id) /\ UserExists(tasks[task_id].created_by)
                            THEN << user_id >> ELSE << >>,
                            IF TaskExists(task_id) /\ UserExists(tasks[task_id].created_by)
                            THEN assignment_message(tasks[task_id].title,
                                                    users[tasks[task_id].created_by].full_name)
                            ELSE << >>,
                            "task_assignment", task_id, fault)
    IN
    /\ ncalls < MaxCalls /\ ncalls' = ncalls + 1
    /\ r = "ok" => Len(out.notifs) <= MaxNotifications
    /\ tasks' = IF r = "ok" THEN execute(fault, tasks, updated) ELSE tasks
    /\ notifications' = IF notifies(r, fault) THEN out.notifs ELSE notifications
    /\ last' = fault_record("assign_task", r, out, fault)
    /\ UNCHANGED <<users, departments, department_employees, task_comments,
                   current_user, calls>>

\* update_task_status under a fault
UpdateTaskStatusFault(task_id, status, fault) ==
    LET cu == current_user[1]
        r == update_task_status_result(cu, task_id, status)
        updated == status_update(tasks, task_id, status)
    IN
    \E order \in status_change_orders(tasks, task_id) :
    LET out == notify_under(notifications, order,
                            IF TaskExists(task_id)
                            THEN status_change_message(tasks[task_id].title, status)
                            ELSE << >>,
                            "task_status_change", task_id, fault)
    IN
    /\ ncalls < MaxCalls /\ ncalls' = ncalls + 1
    /\ r = "ok" => Len(out.notifs) <= MaxNotifications
    /\ tasks' = IF r = "ok" THEN execute(fault, tasks, updated) ELSE tasks
    /\ notifications' = IF notifies(r, fault) THEN out.notifs ELSE notifications
    /\ last' = fault_record("update_task_status", r, out, fault)
    /\ UNCHANGED <<users, departments, department_employees, task_comments,
                   current_user, calls>>

\* add_task_comment under a fault
AddTaskCommentFault(task_id, comment_text, fault) ==
    LET cu == current_user[1]
        r == add_task_comment_result(cu, task_id)
        inserted == Append(task_comments, new_comment(cu, task_id, comment_text))
    IN
    \E order \in IF TaskExists(task_id) /\ UserExists(cu.id)
                  THEN Orders(comment_recipients(cu.id, tasks[task_id])) ELSE { << >> } :
    LET out == notify_under(notifications, order,
                            IF TaskExists(task_id) /\ UserExists(cu.id)
                            THEN new_comment_message(users[cu.id].full_name,
                                                     tasks[task_id].title)
                            ELSE << >>,
                            "new_comment", task_id, fault)
    IN
    /\ ncalls < MaxCalls /\ ncalls' = ncalls + 1
    /\ r = "ok" => Len(task_comments) < MaxComments /\ Len(out.notifs) <= MaxNotifications
    /\ task_comments' = IF r = "ok" THEN execute(fault, task_comments, inserted)
                       ELSE task_comments
    /\ notifications' = IF notifies(r, fault) THEN out.notifs ELSE notifications
    /\ last' = fault_record("add_task_comment", r, out, fault)
    /\ UNCHANGED <<users, departments, department_employees, tasks, current_user, calls>>

\* the tasks of these runs are created outside the departments and given to the two
\* employees
NextFaults ==
    \/ \E login \in Logins : LoginCall(login[1], login[2])
    \/ \E assigned_to \in {None} \cup Employees, fault \in FaultInputs \ (NoMail \ Failures) :
           CreateTaskFault(None, assigned_to, fault)
    \/ \E task_id \in TaskIdInputs, user_id \in Employees, fault \in FaultInputs \ (NoMail \ Failures) :
           AssignTaskFault(task_id, user_id, fault)
    \/ \E task_id \in TaskIdInputs, status \in CommentRunStatuses, fault \in FaultInputs \ (NoMail \ Failures) :
           UpdateTaskStatusFault(task_id, status, fault)
    \/ \E task_id \in TaskIdInputs, comment_text \in CommentTexts, fault \in FaultInputs \ (NoMail \ Failures) :
           AddTaskCommentFault(task_id, comment_text, fault)

SpecFaults == Init /\ [][NextFaults]_vars

\* the same calls when no mail can go out
NextNoMail ==
    \/ \E login \in Logins : LoginCall(login[1], login[2])
    \/ \E assigned_to \in {None} \cup ActingUsers, fault \in FaultInputs \ (Failures \ NoMail) :
           CreateTaskFault(None, assigned_to, fault)
    \/ \E task_id \in TaskIdInputs, user_id \in ActingUsers, fault \in FaultInputs \ (Failures \ NoMail) :
           AssignTaskFault(task_id, user_id, fault)
    \/ \E task_id \in TaskIdInputs, status \in CommentRunStatuses, fault \in FaultInputs \ (Failures \ NoMail) :
           UpdateTaskStatusFault(task_id, status, fault)
    \/ \E task_id \in TaskIdInputs, comment_text \in CommentTexts, fault \in FaultInputs \ (Failures \ NoMail) :
           AddTaskCommentFault(task_id, comment_text, fault)

SpecNoMail == Init /\ [][NextNoMail]_vars

\* ---- assign_task statement by statement: two engines on the one database ----
\* Database.execute commits each statement on its own; a call holds no lock and no
\* transaction across its statements.  The SELECTs of assign_task after the task row
\* read users, departments and department_employees, which no action of this
\* specification writes, so they are taken in one step with the SELECT of the task.

Busy(c) == calls[c].pc \notin {"idle", "done"}

\* the checks of assign_task on the task row fetched earlier
assign_checks(cu, task, user_id) ==
    IF ~has_assign_permission(cu, task) THEN "permission_denied"
    ELSE IF ~UserExists(user_id) THEN "user_not_found"
    ELSE IF task.department_id # None /\ ~IsEmployee(task.department_id, user_id)
        THEN "not_member"
    ELSE "ok"

\* a caller starting a new call no longer counts as having overtaken anyone
Forget(c, cs) == [d \in Callers |-> [cs[d] EXCEPT !.overtaken = @ \ {c}]]

\* assign_task up to the UPDATE: the session check, the SELECT of the task row
\* (created_by, department_id) and the checks made on it
AssignRead(c, task_id, user_id) ==
    LET cu == current_user[c]
        r == IF cu = NoUser THEN "not_logged_in"
             ELSE IF ~TaskExists(task_id) THEN "task_not_found"
             ELSE assign_checks(cu, [created_by |-> tasks[task_id].created_by,
                                     department_id |-> tasks[task_id].department_id],
                                user_id)
    IN
    /\ ~Busy(c)
    /\ calls' = [Forget(c, calls) EXCEPT ![c] =
                    [pc |-> IF r = "ok" THEN "update" ELSE "done",
                     principal |-> cu, task |-> task_id, user |-> user_id,
                     result |-> IF r = "ok" THEN "running" ELSE r,
                     overtaken |-> {}]]
    /\ UNCHANGED <<db, current_user, ncalls, last>>

\* assign_task: the UPDATE, committed at once; every call that has read this task and
\* not yet written it is now overtaken by c
AssignUpdate(c) ==
    /\ calls[c].pc = "update"
    /\ tasks' = assign_update(tasks, calls[c].task, calls[c].user)
    /\ calls' = [d \in Callers |->
                    IF d = c THEN [calls[c] EXCEPT !.pc = "notify"]
                    ELSE IF calls[d].pc = "update" /\ calls[d].task = calls[c].task
                        THEN [calls[d] EXCEPT !.overtaken = @ \cup {c}]
                    ELSE calls[d]]
    /\ UNCHANGED <<users, departments, department_employees, notifications, task_comments,
                   current_user, ncalls, last>>

\* notify_task_assignment up to the SMTP conversation: its SELECT of the title and the
\* creator's name, its INSERT INTO notifications, committed at once, and the SELECT of
\* the address in send_email_notification.  The two SELECTs read columns that no
\* statement of the program changes, of rows that are never deleted, so they are
\* taken in one step with the INSERT.  The call has not returned: with SMTP parameters
\* and an address, as in the example run, it now waits for the SMTP server
AssignCreateNotification(c) ==
    LET notified == notify_task_assignment(tasks, notifications, calls[c].task, calls[c].user)
    IN
    /\ calls[c].pc = "notify"
    /\ Len(notified) <= MaxNotifications
    /\ notifications' = notified
    /\ calls' = [calls EXCEPT ![c].pc = IF notified # notifications /\ UserExists(calls[c].user)
                                        THEN "smtp" ELSE "done",
                              ![c].result = IF notified # notifications
                                               /\ UserExists(calls[c].user)
                                            THEN "running" ELSE "ok"]
    /\ UNCHANGED <<users, departments, department_employees, tasks, task_comments,
                   current_user, ncalls, last>>

\* the SMTP conversation ends, with the mail sent or with an exception that
\* send_email_notification catches; either way the handler now returns its success
\* value
SmtpAnswers(c) ==
    /\ calls[c].pc = "smtp"
    /\ calls' = [calls EXCEPT ![c].pc = "done", ![c].result = "ok"]
    /\ UNCHANGED <<db, current_user, ncalls, last>>

\* the inputs of the concurrent runs: either engine logs in as the administrator or
\* as the first employee and creates the task outside the department that the
\* callers then contend for, each assigning it to one of the two employees
ConcLogins == { <<"admin1", "password123">>, <<"user1", "pass123">> }
ConcTaskIds == {1}
ConcTargets == {3, 4}

ConcLogin(e, username, password) ==
    /\ ~Busy(e)
    /\ Login(e, username, password)
    /\ UNCHANGED ncalls

ConcCreateTask(e) ==
    /\ ~Busy(e)
    /\ Len(tasks) < Cardinality(ConcTaskIds)
    /\ CreateTask(e, None, None)
    /\ UNCHANGED ncalls

NextConc ==
    \/ \E e \in Engines, login \in ConcLogins : ConcLogin(e, login[1], login[2])
    \/ \E e \in Engines : ConcCreateTask(e)
    \/ \E c \in Callers, task_id \in ConcTaskIds, user_id \in ConcTargets :
           AssignRead(c, task_id, user_id)
    \/ \E c \in Callers : AssignUpdate(c)
    \/ \E c \in Callers : AssignCreateNotification(c)
    \/ \E c \in Callers : SmtpAnswers(c)

SpecConc == Init /\ [][NextConc]_vars

\* ---- update_task_status statement by statement, next to assign_task ----
\* update_task_status fetches the task row, checks the permission on the row fetched,
\* commits its UPDATE, and then calls notify_task_status_change, which fetches the
\* task row again to find the users to notify and, for each of them, commits an INSERT
\* INTO notifications and waits for the SMTP server.  Nothing ties the statements
\* together, so the statements of an assign_task on another engine can fall between
\* any two of them.

\* no row: what fetch_one returns for a task id that is not in the table
NoTask == [title |-> "", created_by |-> None, assigned_to |-> None,
           department_id |-> None, status |-> NoStatus, deadline |-> None]

\* update_task_status up to the UPDATE: the session check, the validation of the
\* status, the SELECT of the task row and the permission check on it; seen is the row
\* as it is in the table at this SELECT
StatusRead(c, task_id, status) ==
    LET cu == current_user[c]
        r == update_task_status_result(cu, task_id, status)
    IN
    /\ ~Busy(c)
    /\ calls' = [Forget(c, calls) EXCEPT ![c] =
                    [pc |-> IF r = "ok" THEN "status_update" ELSE "done",
                     op |-> "update_task_status",
                     principal |-> cu, task |-> task_id, status |-> status,
                     seen |-> IF TaskExists(task_id) THEN tasks[task_id] ELSE NoTask,
                     written |-> FALSE, stale |-> FALSE,
                     committed |-> NoTask, recipients |-> {},
                     pending |-> << >>, message |-> << >>,
                     ntype |-> "task_status_change",
                     result |-> IF r = "ok" THEN "running" ELSE r,
                     overtaken |-> {}]]
    /\ UNCHANGED <<db, current_user, ncalls, last>>

\* update_task_status: the UPDATE, committed at once whatever has happened to the row
\* since it was fetched; stale tells whether the row had changed by then, committed is
\* the row as this UPDATE leaves it
StatusUpdate(c) ==
    LET updated == status_update(tasks, calls[c].task, calls[c].status)
    IN
    /\ calls[c].pc = "status_update"
    /\ tasks' = updated
    /\ calls' = [calls EXCEPT ![c].pc = "status_notify",
                              ![c].written = TRUE,
                              ![c].stale = (tasks[calls[c].task] # calls[c].seen),
                              ![c].committed = updated[calls[c].task]]
    /\ UNCHANGED <<users, departments, department_employees, notifications, task_comments,
                   current_user, ncalls, last>>

\* the call after the notification of the first of its pending users: the next user's
\* turn or, after the last, the return of the handler's success value
notify_next(call) ==
    [call EXCEPT !.pending = Tail(@),
                 !.pc = IF Tail(call.pending) = << >> THEN "done" ELSE "notify_insert",
                 !.result = IF Tail(call.pending) = << >> THEN "ok" ELSE "running"]

\* "for user_id in notify_users": create_notification for the next user, committed at
\* once, and the SELECT of the address in send_email_notification; the call then
\* waits for the SMTP server
NotifyInsert(c) ==
    LET u == Head(calls[c].pending) IN
    /\ calls[c].pc = "notify_insert"
    /\ Len(notifications) < MaxNotifications
    /\ notifications' = create_notification(notifications, u, calls[c].message,
                                             calls[c].ntype, calls[c].task)
    /\ calls' = [calls EXCEPT ![c] = IF UserExists(u) THEN [@ EXCEPT !.pc = "notify_smtp"]
                                     ELSE notify_next(@)]
    /\ UNCHANGED <<users, departments, department_employees, tasks, task_comments,
                   current_user, ncalls, last>>

\* the SMTP conversation for that user ends, with the mail sent or with an exception
\* that send_email_notification catches
NotifySmtpAnswers(c) ==
    /\ calls[c].pc = "notify_smtp"
    /\ calls' = [calls EXCEPT ![c] = notify_next(@)]
    /\ UNCHANGED <<db, current_user, ncalls, last>>

\* update_task_status after its UPDATE: the SELECT of notify_task_status_change on the
\* task row as it is now, which gives the title for the message, the users to notify
\* and the order of the loop
StatusSelect(c) ==
    /\ calls[c].pc = "status_notify"
    /\ \E order \in status_change_orders(tasks, calls[c].task) :
           calls' = [calls EXCEPT ![c].pc = IF order = << >> THEN "done" ELSE "notify_insert",
                                  ![c].result = IF order = << >> THEN "ok" ELSE "running",
                                  ![c].recipients = {order[i] : i \in DOMAIN order},
                                  ![c].pending = order,
                                  ![c].message =
                                      IF TaskExists(calls[c].task)
                                      THEN status_change_message(tasks[calls[c].task].title,
                                                                 calls[c].status)
                                      ELSE << >>]
    /\ UNCHANGED <<db, current_user, ncalls, last>>

\* the callers of these runs: engine 1 creates and assigns the task, engine 2 changes
\* its status; either logs in as the administrator or as the first employee
AssignCallers == {1}
StatusCallers == {2}

NextStatus ==
    \/ \E e \in Engines, login \in ConcLogins : ConcLogin(e, login[1], login[2])
    \/ \E e \in AssignCallers : ConcCreateTask(e)
    \/ \E c \in AssignCallers, task_id \in ConcTaskIds, user_id \in ConcTargets :
           AssignRead(c, task_id, user_id)
    \/ \E c \in AssignCallers : AssignUpdate(c)
    \/ \E c \in AssignCallers : AssignCreateNotification(c)
    \/ \E c \in AssignCallers : SmtpAnswers(c)
    \/ \E c \in StatusCallers, task_id \in ConcTaskIds, status \in CommentRunStatuses :
           StatusRead(c, task_id, status)
    \/ \E c \in StatusCallers : StatusUpdate(c)
    \/ \E c \in StatusCallers : StatusSelect(c)
    \/ \E c \in StatusCallers : NotifyInsert(c)
    \/ \E c \in StatusCallers : NotifySmtpAnswers(c)

SpecStatus == Init /\ [][NextStatus]_vars

\* ---- assign_task and its mail: one engine, statement by statement ----
\* notify_task_assignment calls send_email_notification as its last statement, and
\* assign_task returns True after notify_task_assignment has returned.  The engine has
\* SMTP parameters and the users have addresses and the default preferences, as in the
\* example run, so that send_email_notification opens a connection to the SMTP server
\* and waits for it: smtplib.SMTP is given no timeout.

\* the one caller of these runs, on engine 1
MailCallers == {1}

MailCreateTask(e) ==
    /\ ~Busy(e)
    /\ Len(tasks) < MaxTasks
    /\ CreateTask(e, None, None)
    /\ UNCHANGED ncalls

NextMail ==
    \/ \E c \in MailCallers, login \in ConcLogins : ConcLogin(c, login[1], login[2])
    \/ \E c \in MailCallers : MailCreateTask(c)
    \/ \E c \in MailCallers, task_id \in 1..MaxTasks, user_id \in ConcTargets :
           AssignRead(c, task_id, user_id)
    \/ \E c \in MailCallers : AssignUpdate(c)
    \/ \E c \in MailCallers : AssignCreateNotification(c)
    \/ \E c \in MailCallers : SmtpAnswers(c)

SpecMail == Init /\ [][NextMail]_vars

\* ---- one engine used by two callers: create_task and add_task_comment in steps ----
\* Both callers hold the same TaskManager, engine 1, and so the same self.current_user.
\* A handler reads self.current_user for its session check, create_task with a
\* department reads it again for the permission check, and both read it again when
\* they build the parameters of their INSERT; login and logout assign it with no lock.
\* The tables the checks read (departments, users, department_employees) are written
\* by no action of this specification, so a SELECT of them is taken in one step with
\* the read of self.current_user before it.

SharedEngine == 1

\* login by either caller on the shared engine
SharedLogin(c, username, password) ==
    /\ ~Busy(c)
    /\ Login(SharedEngine, username, password)
    /\ UNCHANGED ncalls

\* logout by either caller on the shared engine
SharedLogout(c) ==
    /\ ~Busy(c)
    /\ Logout(SharedEngine)
    /\ UNCHANGED ncalls

\* the call once the department checks are passed: the checks on the assignee of
\* lines 581-603, which read the tables users and department_employees and not the
\* session, then on to the INSERT
to_insert(call) ==
    LET r == IF call.user # None /\ ~UserExists(call.user) THEN "user_not_found"
             ELSE IF call.user # None /\ call.department # None
                     /\ ~IsEmployee(call.department, call.user)
                 THEN "not_member"
             ELSE "ok"
    IN
    [call EXCEPT !.pc = IF r = "ok" THEN "insert" ELSE "done",
                 !.result = IF r = "ok" THEN "running" ELSE r]

\* create_task, line 560 and the SELECT of the department: the session check reads
\* self.current_user; with a department the call goes on to line 578
SharedCreateCheck(c, department_id, assigned_to) ==
    LET cu == current_user[SharedEngine]
        r == IF cu = NoUser THEN "not_logged_in"
             ELSE IF department_id # None /\ ~DepartmentExists(department_id)
                 THEN "department_not_found"
             ELSE "ok"
        call == [pc |-> "admin", op |-> "create_task", principal |-> cu,
                 department |-> department_id, user |-> assigned_to,
                 task |-> None, text |-> "", result |-> "running",
                 ret |-> None, pending |-> << >>, ntype |-> "task_assignment",
                 author |-> NoUser, overtaken |-> {}]
    IN
    /\ ~Busy(c)
    /\ calls' = [Forget(c, calls) EXCEPT ![c] =
                    IF r # "ok" THEN [call EXCEPT !.pc = "done", !.result = r]
                    ELSE IF department_id # None THEN call
                    ELSE to_insert(call)]
    /\ UNCHANGED <<db, current_user, ncalls, last>>

\* create_task, line 578, "not self.current_user.is_admin": self.current_user is read
\* again, outside the try block; with nobody logged in by now the attribute access
\* raises AttributeError out of create_task
SharedCreateAdmin(c) ==
    LET cu == current_user[SharedEngine] IN
    /\ calls[c].pc = "admin"
    /\ calls' = [calls EXCEPT ![c] =
                    IF cu = NoUser THEN [@ EXCEPT !.pc = "done", !.result = "raised"]
                    ELSE IF cu.is_admin THEN to_insert(@)
                    ELSE [@ EXCEPT !.pc = "head"]]
    /\ UNCHANGED <<db, current_user, ncalls, last>>

\* create_task, line 578, "department[1] != self.current_user.id": one more read of
\* self.current_user, made when the user read before is no administrator
SharedCreateHead(c) ==
    LET cu == current_user[SharedEngine] IN
    /\ calls[c].pc = "head"
    /\ calls' = [calls EXCEPT ![c] =
                    IF cu = NoUser THEN [@ EXCEPT !.pc = "done", !.result = "raised"]
                    ELSE IF departments[calls[c].department].head_id # cu.id
                        THEN [@ EXCEPT !.pc = "done", !.result = "permission_denied"]
                    ELSE to_insert(@)]
    /\ UNCHANGED <<db, current_user, ncalls, last>>

\* create_task, line 615: the arguments of the INSERT are built, among them
\* self.current_user.id as it is now; with nobody logged in by now the attribute
\* access raises inside the try block and the handler returns its error message
SharedCreateRead(c) ==
    LET cu == current_user[SharedEngine] IN
    /\ calls[c].pc = "insert" /\ calls[c].op = "create_task"
    /\ calls' = [calls EXCEPT ![c] = IF cu = NoUser
                                     THEN [@ EXCEPT !.pc = "done", !.result = "error"]
                                     ELSE [@ EXCEPT !.pc = "execute", !.author = cu]]
    /\ UNCHANGED <<db, current_user, ncalls, last>>

\* create_task: the INSERT, committed at once, with created_by the id read at line
\* 615, whatever the session is by now.  With an assignee the call goes on to
\* notify_task_assignment, without one it returns the task id
SharedCreateInsert(c) ==
    LET task_id == Len(tasks) + 1
        inserted == Append(tasks, new_task(calls[c].author, calls[c].department,
                                           calls[c].user))
    IN
    /\ calls[c].pc = "execute" /\ calls[c].op = "create_task"
    /\ Len(tasks) < MaxTasks
    /\ tasks' = inserted
    /\ calls' = [calls EXCEPT ![c].pc = IF calls[c].user # None THEN "notify" ELSE "done",
                              ![c].result = IF calls[c].user # None THEN "running" ELSE "ok",
                              ![c].task = task_id,
                              ![c].ret = task_id]
    /\ UNCHANGED <<users, departments, department_employees, notifications, task_comments,
                   current_user, ncalls, last>>

\* add_task_comment up to the INSERT: the session check and the SELECT of the task
SharedCommentCheck(c, task_id, comment_text) ==
    LET cu == current_user[SharedEngine]
        r == add_task_comment_result(cu, task_id)
    IN
    /\ ~Busy(c)
    /\ calls' = [Forget(c, calls) EXCEPT ![c] =
                    [pc |-> IF r = "ok" THEN "insert" ELSE "done",
                     op |-> "add_task_comment", principal |-> cu,
                     department |-> None, user |-> None,
                     task |-> task_id, text |-> comment_text,
                     result |-> IF r = "ok" THEN "running" ELSE r,
                     ret |-> None, pending |-> << >>, message |-> << >>,
                     ntype |-> "new_comment", author |-> NoUser,
                     overtaken |-> {}]]
    /\ UNCHANGED <<db, current_user, ncalls, last>>

\* add_task_comment, line 789: the arguments of the INSERT are built, among them
\* self.current_user.id as it is now; with nobody logged in by now the handler
\* returns its error message
SharedCommentRead(c) ==
    LET cu == current_user[SharedEngine] IN
    /\ calls[c].pc = "insert" /\ calls[c].op = "add_task_comment"
    /\ calls' = [calls EXCEPT ![c] = IF cu = NoUser
                                     THEN [@ EXCEPT !.pc = "done", !.result = "error"]
                                     ELSE [@ EXCEPT !.pc = "execute", !.author = cu]]
    /\ UNCHANGED <<db, current_user, ncalls, last>>

\* add_task_comment: the INSERT, committed at once, with user_id the id read at line
\* 789, whatever the session is by now
SharedCommentInsert(c) ==
    LET comment_id == Len(task_comments) + 1
        inserted == Append(task_comments,
                           new_comment(calls[c].author, calls[c].task, calls[c].text))
    IN
    /\ calls[c].pc = "execute" /\ calls[c].op = "add_task_comment"
    /\ Len(task_comments) < MaxComments
    /\ task_comments' = inserted
    /\ calls' = [calls EXCEPT ![c].pc = "comment_notify", ![c].ret = comment_id]
    /\ UNCHANGED <<users, departments, department_employees, tasks, notifications,
                   current_user, ncalls, last>>

\* add_task_comment after its INSERT: the SELECT of notify_new_comment, which gives
\* the commenter's name and the title for the message, the users to notify and the
\* order of the loop
SharedCommentSelect(c) ==
    /\ calls[c].pc = "comment_notify"
    /\ \E order \in comment_orders(task_comments, calls[c].ret) :
           calls' = [calls EXCEPT ![c].pc = IF order = << >> THEN "done" ELSE "notify_insert",
                                  ![c].result = IF order = << >> THEN "ok" ELSE "running",
                                  ![c].pending = order,
                                  ![c].message =
                                      IF comment_found(task_comments, calls[c].ret)
                                      THEN new_comment_message(
                                               users[task_comments[calls[c].ret].user_id].full_name,
                                               tasks[task_comments[calls[c].ret].task_id].title)
                                      ELSE << >>]
    /\ UNCHANGED <<db, current_user, ncalls, last>>

\* in these runs the first caller makes the task calls and the second, who makes no
\* call that takes more than one step, logs in and out whenever it likes
TaskCallers == {1}

NextShared ==
    \/ \E c \in Callers \ TaskCallers, login \in ConcLogins : SharedLogin(c, login[1], login[2])
    \/ \E c \in Callers \ TaskCallers : SharedLogout(c)
    \/ \E c \in TaskCallers, department_id \in {None} \cup DOMAIN SeedDepartments,
          assigned_to \in {None} \cup {e[2] : e \in SeedEmployees} :
           SharedCreateCheck(c, department_id, assigned_to)
    \/ \E c \in TaskCallers : SharedCreateAdmin(c)
    \/ \E c \in TaskCallers : SharedCreateHead(c)
    \/ \E c \in TaskCallers : SharedCreateRead(c)
    \/ \E c \in TaskCallers : SharedCreateInsert(c)
    \/ \E c \in TaskCallers : AssignCreateNotification(c)
    \/ \E c \in TaskCallers : SmtpAnswers(c)
    \/ \E c \in TaskCallers, task_id \in TaskIdInputs, comment_text \in CommentTexts :
           SharedCommentCheck(c, task_id, comment_text)
    \/ \E c \in TaskCallers : SharedCommentRead(c)
    \/ \E c \in TaskCallers : SharedCommentInsert(c)
    \/ \E c \in TaskCallers : SharedCommentSelect(c)
    \/ \E c \in TaskCallers : NotifyInsert(c)
    \/ \E c \in TaskCallers : NotifySmtpAnswers(c)

SpecShared == Init /\ [][NextShared]_vars

\* ---- register_user statement by statement: two engines on the one database ----
\* register_user asks for no session.  Its SELECT and its INSERT are two statements,
\* each committed on its own, so another caller's INSERT can fall between them.

\* the names tried: a name of the example run that is taken, and a new one
RegisterUsernames == {"user1", "user3"}

\* mutant of insert_user_result: the users table without UNIQUE on username
insert_user_result_not_unique(us, username) == "ok"

\* INSERT INTO users: username is UNIQUE, a second row with the name raises
insert_user_result(us, username) ==
    IF \E i \in DOMAIN us : us[i].username = username THEN "unique_violation" ELSE "ok"

\* register_user up to the INSERT: the SELECT by username and the early return
RegisterRead(c, username, password, full_name, is_admin) ==
    LET existing_user == UserIdByUsername(username) IN
    /\ ~Busy(c)
    /\ calls' = [Forget(c, calls) EXCEPT ![c] =
                    [pc |-> IF existing_user # None THEN "done" ELSE "insert",
                     op |-> "register_user", username |-> username,
                     password_hash |-> hash_password(password), is_admin |-> is_admin,
                     full_name |-> full_name,
                     result |-> IF existing_user # None THEN "username_exists"
                                ELSE "running",
                     ret |-> None, overtaken |-> {}]]
    /\ UNCHANGED <<db, current_user, ncalls, last>>

\* register_user: the INSERT; the database refuses a taken name, execute rolls back
\* and raises, and the handler returns its error message
RegisterInsert(c) ==
    LET r == insert_user_result(users, calls[c].username) IN
    /\ calls[c].pc = "insert"
    /\ r = "ok" => Len(users) < MaxUsers
    /\ IF r = "ok"
       THEN /\ users' = Append(users, [username |-> calls[c].username,
                                       password_hash |-> calls[c].password_hash,
                                       is_admin |-> calls[c].is_admin,
                                       full_name |-> calls[c].full_name])
            /\ calls' = [d \in Callers |->
                            IF d = c THEN [calls[c] EXCEPT !.pc = "done", !.result = "ok",
                                                           !.ret = Len(users) + 1]
                            ELSE IF calls[d].pc = "insert"
                                    /\ calls[d].username = calls[c].username
                                THEN [calls[d] EXCEPT !.overtaken = @ \cup {c}]
                            ELSE calls[d]]
       ELSE /\ UNCHANGED users
            /\ calls' = [calls EXCEPT ![c].pc = "done", ![c].result = "error"]
    /\ UNCHANGED <<departments, department_employees, tasks, notifications, task_comments,
                   current_user, ncalls, last>>

\* a login with what may have been registered, on the engine of a caller between calls
RegisterLogin(e, username, password) ==
    /\ ~Busy(e)
    /\ Login(e, username, password)
    /\ UNCHANGED ncalls

NextRegister ==
    \/ \E c \in Callers, username \in RegisterUsernames, password \in {"pass123"},
          is_admin \in BOOLEAN :
           RegisterRead(c, username, password, "Sidorov Aleksei", is_admin)
    \/ \E c \in Callers : RegisterInsert(c)
    \/ \E e \in Engines, username \in RegisterUsernames, password \in Passwords :
           RegisterLogin(e, username, password)

SpecRegister == Init /\ [][NextRegister]_vars

\* ======================= properties =======================

\* what the last call was made with: its principal (no task operation changes the
\* session), and the addressed task row as it was before the call
Caller == current_user[last.engine]
TaskExisted == last.task \in DOMAIN last.before.tasks
TaskBefore == last.before.tasks[last.task]
NothingPersisted ==
    tasks = last.before.tasks /\ notifications = last.before.notifications

\* roles, read from the tables
IsAdminUser(user_id) == user_id \in DOMAIN users /\ users[user_id].is_admin
IsHeadOf(user_id, department_id) ==
    department_id \in DOMAIN departments /\ departments[department_id].head_id = user_id
IsMemberOf(user_id, department_id) == <<department_id, user_id>> \in department_employees
AllowedStatuses == {"new", "in_progress", "completed", "cancelled"}

MayAssign(user_id, task) ==
    \/ IsAdminUser(user_id)
    \/ user_id = task.created_by
    \/ IsHeadOf(user_id, task.department_id)

MayChangeStatus(user_id, task) ==
    \/ IsAdminUser(user_id)
    \/ user_id = task.created_by
    \/ user_id = task.assigned_to
    \/ IsHeadOf(user_id, task.department_id)

\* C1: assign_task succeeds only for an admin, the task's creator or the head of the
\* task's department; any other logged-in principal addressing an existing task gets
\* the permission error, and the task keeps its assignee and status.
C1_AssignPermission ==
    last.op = "assign_task" =>
        /\ last.result = "ok" =>
              Caller # NoUser /\ TaskExisted /\ MayAssign(Caller.id, TaskBefore)
        /\ (Caller # NoUser /\ TaskExisted /\ ~MayAssign(Caller.id, TaskBefore)) =>
              /\ last.result = "permission_denied"
              /\ tasks[last.task].assigned_to = TaskBefore.assigned_to
              /\ tasks[last.task].status = TaskBefore.status

\* C1 witness: a logged-in principal who is neither admin, creator nor head was refused
C1_Witness ==
    /\ last.op = "assign_task" /\ last.result = "permission_denied"
    /\ Caller # NoUser /\ TaskExisted /\ ~MayAssign(Caller.id, TaskBefore)

\* C2: update_task_status with a valid status on an existing task succeeds if and only
\* if the principal is an admin, the creator, the current assignee or the department
\* head; anyone else gets the permission error and the status stays.
C2_StatusPermission ==
    (last.op = "update_task_status" /\ last.status \in AllowedStatuses
        /\ Caller # NoUser /\ TaskExisted) =>
        /\ last.result = "ok" <=> MayChangeStatus(Caller.id, TaskBefore)
        /\ ~MayChangeStatus(Caller.id, TaskBefore) =>
              /\ last.result = "permission_denied"
              /\ tasks[last.task].status = TaskBefore.status

\* C2 witness: the assignee, who is neither admin nor creator, changed the status
C2_Witness ==
    /\ last.op = "update_task_status" /\ last.result = "ok"
    /\ Caller.id = TaskBefore.assigned_to
    /\ Caller.id # TaskBefore.created_by /\ ~IsAdminUser(Caller.id)

\* C3: after a successful assign_task the task's assignee is the target user and its
\* status is in-progress, whatever the status was before.
C3_AssignSetsInProgress ==
    (last.op = "assign_task" /\ last.result = "ok") =>
        /\ tasks[last.task].assigned_to = last.user
        /\ tasks[last.task].status = "in_progress"

\* C3 witness: a completed task was assigned
C3_Witness ==
    /\ last.op = "assign_task" /\ last.result = "ok"
    /\ TaskExisted /\ TaskBefore.status = "completed"

\* C4: update_task_status with a status outside the four allowed values returns the
\* validation error for every logged-in principal and every task id, and changes
\* neither the tasks nor the notifications.
C4_InvalidStatusRejected ==
    (last.op = "update_task_status" /\ last.status \notin AllowedStatuses
        /\ Caller # NoUser) =>
        last.result = "invalid_status" /\ NothingPersisted

\* C4 witness: an admin's invalid status on an existing task was rejected
C4_Witness ==
    /\ last.op = "update_task_status" /\ last.status \notin AllowedStatuses
    /\ last.result = "invalid_status" /\ IsAdminUser(Caller.id) /\ TaskExisted

\* C6: status transitions are unrestricted: update_task_status by an authorized
\* principal with any of the four statuses succeeds from any current status and
\* leaves the task with the requested status.
C6_UnrestrictedTransitions ==
    (last.op = "update_task_status" /\ last.status \in AllowedStatuses
        /\ Caller # NoUser /\ TaskExisted /\ MayChangeStatus(Caller.id, TaskBefore)) =>
        /\ last.result = "ok"
        /\ tasks[last.task].status = last.status

\* C6 witness: a completed task was set back to new
C6_Witness ==
    /\ last.op = "update_task_status" /\ last.result = "ok"
    /\ TaskBefore.status = "completed" /\ last.status = "new"
    /\ tasks[last.task].status = "new"

\* C7: assign_task by a permitted principal fails, persisting nothing, when the target
\* user does not exist or the task has a department the target is no member of; an
\* admin is refused too.
C7_AssignTargetChecked ==
    (last.op = "assign_task" /\ Caller # NoUser /\ TaskExisted
        /\ MayAssign(Caller.id, TaskBefore)
        /\ \/ last.user \notin DOMAIN users
           \/ /\ TaskBefore.department_id # None
              /\ ~IsMemberOf(last.user, TaskBefore.department_id)) =>
        /\ last.result \in {"user_not_found", "not_member"}
        /\ NothingPersisted

\* C7 witness: an admin was refused a target outside the task's department
C7_Witness ==
    /\ last.op = "assign_task" /\ last.result = "not_member"
    /\ IsAdminUser(Caller.id) /\ last.user \in DOMAIN users
    /\ ~IsMemberOf(last.user, TaskBefore.department_id)

\* C8: a successful create_task appends exactly one task, with status new and the
\* caller as creator, and creates exactly one unread task-assignment notification
\* for the assignee when one is given (also when it is the creator) and none otherwise.
C8_CreateTaskEffect ==
    (last.op = "create_task" /\ last.result = "ok") =>
        /\ Caller # NoUser
        /\ tasks = Append(last.before.tasks,
                          [title |-> last.title, created_by |-> Caller.id,
                           assigned_to |-> last.user,
                           department_id |-> last.department, status |-> "new",
                           deadline |-> None])
        /\ last.ret = Len(tasks)
        /\ IF last.user # None
           THEN notifications = Append(last.before.notifications,
                                   [user_id |-> last.user,
                                    message |-> << "You are assigned a new task: ",
                                                   last.title, " from user ",
                                                   users[Caller.id].full_name >>,
                                    type |-> "task_assignment",
                                    related_id |-> last.ret, is_read |-> FALSE])
           ELSE notifications = last.before.notifications

\* C8 witness: a task was created with its creator as assignee
C8_Witness ==
    /\ last.op = "create_task" /\ last.result = "ok"
    /\ last.user = Caller.id
    /\ Len(notifications) = Len(last.before.notifications) + 1

\* C9: create_task with an assignee who does not exist, or with a department the
\* assignee is no member of, fails and persists nothing.
C9_CreateAssigneeChecked ==
    (last.op = "create_task" /\ last.user # None
        /\ \/ last.user \notin DOMAIN users
           \/ last.department # None /\ ~IsMemberOf(last.user, last.department)) =>
        /\ last.result # "ok"
        /\ NothingPersisted

\* C9 witness: the department's head was refused an assignee outside the department
C9_Witness ==
    /\ last.op = "create_task" /\ last.result = "not_member"
    /\ IsHeadOf(Caller.id, last.department)
    /\ last.user \in DOMAIN users /\ NothingPersisted

\* C10: create_task without a department is open to every logged-in principal; with
\* an existing department it is permitted exactly to an admin or that department's
\* head; with a department that does not exist it fails; a refusal persists no task.
C10_CreatePermission ==
    (last.op = "create_task" /\ Caller # NoUser) =>
        /\ last.department = None =>
              /\ last.result \in {"ok", "user_not_found"}
              /\ (last.user = None \/ last.user \in DOMAIN users) => last.result = "ok"
        /\ last.department \in DOMAIN departments =>
              (last.result = "permission_denied"
                  <=> ~(IsAdminUser(Caller.id) \/ IsHeadOf(Caller.id, last.department)))
        /\ (last.department # None /\ last.department \notin DOMAIN departments) =>
              last.result = "department_not_found"
        /\ last.result # "ok" => tasks = last.before.tasks

\* C10 witness: a principal who is neither admin nor head was refused a department task
C10_Witness ==
    /\ last.op = "create_task" /\ last.result = "permission_denied"
    /\ last.department \in DOMAIN departments
    /\ Caller # NoUser /\ ~IsAdminUser(Caller.id) /\ ~IsHeadOf(Caller.id, last.department)

\* C5: two assign_task calls on one task with different targets, both callers permitted
\* and both targets valid, one overtaking the other between its read and its write:
\* exactly one returns success and its target is the assignee; the other returns Conflict.
C5_ConcurrentAssignConflict ==
    \A c, d \in Callers :
        (/\ c # d
         /\ calls[c].pc = "done" /\ calls[d].pc = "done"
         /\ d \in calls[c].overtaken
         /\ calls[c].task = calls[d].task /\ calls[c].user # calls[d].user
         /\ calls[c].task \in DOMAIN tasks
         /\ \A x \in {c, d} :
               /\ calls[x].principal # NoUser
               /\ MayAssign(calls[x].principal.id, tasks[calls[x].task])
               /\ calls[x].user \in DOMAIN users
               /\ tasks[calls[x].task].department_id # None =>
                      IsMemberOf(calls[x].user, tasks[calls[x].task].department_id))
        => \E w \in {c, d} :
              /\ calls[w].result = "ok"
              /\ tasks[calls[w].task].assigned_to = calls[w].user
              /\ \A l \in {c, d} \ {w} : calls[l].result = "conflict"

\* ---- notifications and comments ----

\* the notifications the last call created, oldest first
NewNotifications ==
    SubSeq(notifications, Len(last.before.notifications) + 1, Len(notifications))

\* the notifications that were there before the last call are still there, unaltered
OldNotificationsKept ==
    /\ Len(notifications) >= Len(last.before.notifications)
    /\ SubSeq(notifications, 1, Len(last.before.notifications)) = last.before.notifications

\* how many of the new notifications went to a user
NewNotificationsFor(user_id) ==
    Cardinality({i \in DOMAIN NewNotifications : NewNotifications[i].user_id = user_id})

\* the text a notification of a kind carries after the last call: what happened, to
\* which task, and who did it or, for an assignment, who created the task
MessageOf(notification_type) ==
    IF notification_type = "task_assignment"
    THEN << "You are assigned a new task: ", TaskBefore.title, " from user ",
            users[TaskBefore.created_by].full_name >>
    ELSE IF notification_type = "new_comment"
    THEN << "New comment from ", users[Caller.id].full_name, " on task '",
            TaskBefore.title, "'" >>
    ELSE << "Task '", TaskBefore.title, "' ",
            CASE last.status = "new" -> "created"
              [] last.status = "in_progress" -> "taken into work"
              [] last.status = "completed" -> "completed"
              [] last.status = "cancelled" -> "cancelled" >>

\* the notification of a kind about a task, as a user first sees it
Unread(user_id, notification_type, task_id) ==
    [user_id |-> user_id, message |-> MessageOf(notification_type),
     type |-> notification_type, related_id |-> task_id, is_read |-> FALSE]

\* creator and assignee of a task, without the unset assignee
Related(task) == {task.created_by, task.assigned_to} \ {None}

\* C11: a user is notified once per event: for a task whose creator is its assignee, a
\* successful update_task_status creates exactly one status-change notification and a
\* comment by a third user creates exactly one new-comment notification; no successful
\* status change or comment creates two notifications for one user.
C11_RecipientsDeduplicated ==
    (last.op \in {"update_task_status", "add_task_comment"} /\ last.result = "ok") =>
        /\ OldNotificationsKept
        /\ \A u \in DOMAIN users : NewNotificationsFor(u) <= 1
        /\ (TaskBefore.created_by = TaskBefore.assigned_to
               /\ last.op = "update_task_status") =>
              NewNotifications =
                  << Unread(TaskBefore.created_by, "task_status_change", last.task) >>
        /\ (TaskBefore.created_by = TaskBefore.assigned_to
               /\ last.op = "add_task_comment" /\ Caller.id # TaskBefore.created_by) =>
              NewNotifications =
                  << Unread(TaskBefore.created_by, "new_comment", last.task) >>

\* C11 witness: a third user commented a task whose creator is its assignee, and one
\* notification was created
C11_Witness ==
    /\ last.op = "add_task_comment" /\ last.result = "ok"
    /\ TaskBefore.created_by = TaskBefore.assigned_to
    /\ Caller.id # TaskBefore.created_by
    /\ Len(NewNotifications) = 1

\* C12: a successful update_task_status creates one status-change notification for the
\* task's creator and one for its assignee when set and different from the creator, and
\* no other; the user who made the change is notified like anyone else.
C12_StatusChangeRecipients ==
    (last.op = "update_task_status" /\ last.result = "ok") =>
        /\ OldNotificationsKept
        /\ Len(NewNotifications) = Cardinality(Related(TaskBefore))
        /\ {NewNotifications[i] : i \in DOMAIN NewNotifications}
              = {Unread(u, "task_status_change", last.task) : u \in Related(TaskBefore)}
        /\ Caller.id \in Related(TaskBefore) => NewNotificationsFor(Caller.id) = 1

\* C12 witness: the assignee, who is not the creator, changed the status and was notified
C12_Witness ==
    /\ last.op = "update_task_status" /\ last.result = "ok"
    /\ Caller.id = TaskBefore.assigned_to /\ Caller.id # TaskBefore.created_by
    /\ NewNotificationsFor(Caller.id) = 1
    /\ NewNotificationsFor(TaskBefore.created_by) = 1

\* C13: a successful add_task_comment creates new-comment notifications for exactly the
\* task's creator and assignee without the commenter, one each; the commenter gets
\* none, and a comment by the only related user creates none at all.
C13_CommentRecipients ==
    (last.op = "add_task_comment" /\ last.result = "ok") =>
        /\ OldNotificationsKept
        /\ Len(NewNotifications) = Cardinality(Related(TaskBefore) \ {Caller.id})
        /\ {NewNotifications[i] : i \in DOMAIN NewNotifications}
              = {Unread(u, "new_comment", last.task) :
                    u \in Related(TaskBefore) \ {Caller.id}}
        /\ NewNotificationsFor(Caller.id) = 0
        /\ Related(TaskBefore) = {Caller.id} => notifications = last.before.notifications

\* C13 witness: the creator commented a task assigned to another user, who alone was
\* notified
C13_Witness ==
    /\ last.op = "add_task_comment" /\ last.result = "ok"
    /\ Caller.id = TaskBefore.created_by
    /\ TaskBefore.assigned_to \notin {None, Caller.id}
    /\ NewNotifications = << Unread(TaskBefore.assigned_to, "new_comment", last.task) >>

\* who may read the comments of a task, read from the tables
MayReadComments(user_id, task) ==
    \/ IsAdminUser(user_id)
    \/ user_id \in Related(task)
    \/ IsHeadOf(user_id, task.department_id)
    \/ task.department_id # None /\ IsMemberOf(user_id, task.department_id)

\* the rows of task_comments that belong to a task
CommentIdsOf(task_id) == {i \in DOMAIN task_comments : task_comments[i].task_id = task_id}

\* C19: get_task_comments on an existing task returns the task's comments if and only
\* if the principal is an admin, the task's creator or assignee, the head of the task's
\* department or a member of it; every other principal gets the permission error, and
\* so does every non-admin non-creator non-assignee when the task has no department.
C19_ReadCommentsPermission ==
    (last.op = "get_task_comments" /\ Caller # NoUser /\ last.task \in DOMAIN tasks) =>
        LET task == tasks[last.task] IN
        /\ last.result = "ok" <=> MayReadComments(Caller.id, task)
        /\ ~MayReadComments(Caller.id, task) => last.result = "permission_denied"
        /\ (task.department_id = None /\ ~IsAdminUser(Caller.id)
               /\ Caller.id \notin Related(task)) => last.result = "permission_denied"
        /\ last.result = "ok" =>
              /\ {last.ret[i].id : i \in DOMAIN last.ret} = CommentIdsOf(last.task)
              /\ Len(last.ret) = Cardinality(CommentIdsOf(last.task))
              /\ \A i \in DOMAIN last.ret :
                    /\ last.ret[i].text = task_comments[last.ret[i].id].text
                    /\ last.ret[i].user = task_comments[last.ret[i].id].user_id
                    /\ \A j \in DOMAIN last.ret : i < j => last.ret[i].id < last.ret[j].id

\* C19 witness: a member of the task's department who is neither admin, creator,
\* assignee nor head read the comments
C19_Witness ==
    /\ last.op = "get_task_comments" /\ last.result = "ok"
    /\ last.task \in DOMAIN tasks
    /\ ~IsAdminUser(Caller.id) /\ Caller.id \notin Related(tasks[last.task])
    /\ ~IsHeadOf(Caller.id, tasks[last.task].department_id)
    /\ IsMemberOf(Caller.id, tasks[last.task].department_id)

\* C20: add_task_comment by a logged-in principal succeeds on every existing task,
\* whoever the principal is, and appends exactly one comment, authored by the principal,
\* leaving the comments that were there as they were; on a task that does not exist it
\* fails with not-found and the comments stay.
C20_AnyPrincipalComments ==
    (last.op = "add_task_comment" /\ Caller # NoUser) =>
        /\ TaskExisted =>
              /\ last.result = "ok"
              /\ task_comments = Append(last.before.task_comments,
                                        [task_id |-> last.task, user_id |-> Caller.id,
                                         text |-> last.text])
              /\ last.ret = Len(task_comments)
        /\ ~TaskExisted =>
              /\ last.result = "task_not_found"
              /\ task_comments = last.before.task_comments

\* C20 witness: a principal who is neither admin, creator, assignee, head nor member
\* commented a task
C20_Witness ==
    /\ last.op = "add_task_comment" /\ last.result = "ok" /\ TaskExisted
    /\ ~MayReadComments(Caller.id, TaskBefore)
    /\ Len(task_comments) = Len(last.before.task_comments) + 1

\* ---- departments ----

\* C17: create_department succeeds only for an admin principal and a head who is an
\* existing admin user, and then adds that one department; a non-admin caller, a
\* missing head or a non-admin head gets an error and no department is created; so
\* every department's head is an existing user with the admin flag set.
C17_DepartmentHeadIsAdmin ==
    /\ \A d \in DOMAIN departments : IsAdminUser(departments[d].head_id)
    /\ last.op = "create_department" =>
          /\ last.result = "ok" =>
                /\ IsAdminUser(Caller.id) /\ IsAdminUser(last.head)
                /\ departments = Append(last.before.departments, [head_id |-> last.head])
                /\ last.ret = Len(departments)
          /\ (~IsAdminUser(Caller.id) \/ ~IsAdminUser(last.head)) =>
                /\ last.result \in {"permission_denied", "user_not_found", "head_not_admin"}
                /\ departments = last.before.departments

\* C17 witness: an admin was refused a head who exists but is no admin
C17_Witness ==
    /\ last.op = "create_department" /\ last.result = "head_not_admin"
    /\ IsAdminUser(Caller.id) /\ last.head \in DOMAIN users
    /\ departments = last.before.departments

\* C18: add_employee_to_department changes the membership only for an admin principal,
\* an existing user and an existing department, and then adds that one pair; adding a
\* user who is already a member returns an error and leaves the membership unchanged.
C18_AddEmployee ==
    last.op = "add_employee_to_department" =>
        LET pair == <<last.department, last.user>> IN
        /\ departments = last.before.departments
        /\ department_employees # last.before.department_employees =>
              /\ IsAdminUser(Caller.id)
              /\ last.user \in DOMAIN users /\ last.department \in DOMAIN departments
              /\ last.result = "ok"
              /\ pair \notin last.before.department_employees
              /\ department_employees = last.before.department_employees \cup {pair}
        /\ last.result = "ok" => department_employees # last.before.department_employees
        /\ pair \in last.before.department_employees =>
              /\ last.result # "ok"
              /\ IsAdminUser(Caller.id) => last.result = "already_member"
              /\ department_employees = last.before.department_employees

\* C18 witness: an admin added a user who was already a member and was refused
C18_Witness ==
    /\ last.op = "add_employee_to_department" /\ last.result = "already_member"
    /\ IsAdminUser(Caller.id)
    /\ <<last.department, last.user>> \in last.before.department_employees
    /\ department_employees = last.before.department_employees

\* ---- failures after the commit ----

\* C14: a failure while creating a notification or delivering a mail does not mask the
\* success of the operation: when create_task, assign_task, update_task_status or
\* add_task_comment has committed its change, the call returns its success result,
\* whether or not an INSERT INTO notifications or the SMTP server failed afterwards.
C14_FailureNotMasked ==
    (last.op \in {"create_task", "assign_task", "update_task_status", "add_task_comment"}
        /\ "fault" \in DOMAIN last /\ last.committed) =>
        last.result = "ok"

\* the half of C14 the code keeps: a failing SMTP server is not seen by the caller
SmtpFailureNotMasked ==
    ("fault" \in DOMAIN last /\ last.committed /\ last.fault = "smtp_fails") =>
        last.result = "ok" /\ last.emailed = {}

\* ---- refusals ----

\* the operations that write, and the results that refuse a call for want of
\* permission, of a row, or of a valid argument
WritingOps ==
    {"create_department", "add_employee_to_department", "create_task", "assign_task",
     "update_task_status", "add_task_comment"}
Refusals ==
    {"permission_denied", "user_not_found", "head_not_admin", "department_not_found",
     "already_member", "not_member", "task_not_found", "invalid_status"}

\* the operations that need a session
SessionOps ==
    WritingOps \cup {"get_user_tasks", "get_department_tasks", "get_task_comments",
                     "get_user_statistics"}

\* C15: permission and validation failures are found before anything is written: a call
\* of create_department, add_employee_to_department, create_task, assign_task,
\* update_task_status or add_task_comment that returns a permission, not-found or
\* validation error leaves departments, memberships, tasks, comments and notifications
\* exactly as they were.
C15_RefusalWritesNothing ==
    [][(last'.op \in WritingOps /\ last'.result \in Refusals) =>
          UNCHANGED <<departments, department_employees, tasks, task_comments,
                      notifications>>]_vars

\* C15 witness: an assignment was refused because the target is no member of the
\* task's department, and the task has another assignee than the refused target
C15_Witness ==
    /\ last.op = "assign_task" /\ last.result = "not_member"
    /\ TaskExisted /\ tasks[last.task] = TaskBefore
    /\ tasks[last.task].assigned_to # last.user

\* C16: without a session principal (before a login, or after logout) every operation
\* that needs one returns the not-authenticated error and changes no stored state.
C16_NoSessionNotAuthenticated ==
    [][(current_user[1] = NoUser /\ last'.op \in SessionOps) =>
          last'.result = "not_logged_in" /\ UNCHANGED db]_vars

\* what the code keeps of C16: without a session every such operation is refused, with
\* the not-authenticated error or, by create_department and add_employee_to_department,
\* with the permission error, and nothing stored changes
NoSessionRefused ==
    [][(current_user[1] = NoUser /\ last'.op \in SessionOps) =>
          /\ last'.result = IF last'.op \in {"create_department", "add_employee_to_department"}
                            THEN "permission_denied" ELSE "not_logged_in"
          /\ UNCHANGED db]_vars

\* ---- task lists and statistics ----

\* C21: get_user_tasks and get_user_statistics for another user than the principal
\* succeed only for an admin; a principal who is no admin is refused every other
\* user's id, and is always allowed their own id and the omitted id.
C21_ViewOwnOrAdmin ==
    (last.op \in {"get_user_tasks", "get_user_statistics"} /\ Caller # NoUser) =>
        /\ last.user \in {None, Caller.id} => last.result = "ok"
        /\ last.user \notin {None, Caller.id} =>
              /\ last.result = "ok" <=> IsAdminUser(Caller.id)
              /\ ~IsAdminUser(Caller.id) => last.result = "permission_denied"

\* C21 witness: a principal who is no admin asked for another user's statistics and
\* was refused
C21_Witness ==
    /\ last.op = "get_user_statistics" /\ last.result = "permission_denied"
    /\ Caller # NoUser /\ ~IsAdminUser(Caller.id)
    /\ last.user \in DOMAIN users /\ last.user # Caller.id

\* C22: get_department_tasks on an existing department succeeds if and only if the
\* principal is an admin, the department's head or one of its members; every other
\* principal gets the permission error; a department that does not exist is not found.
C22_DepartmentTasksPermission ==
    (last.op = "get_department_tasks" /\ Caller # NoUser) =>
        /\ last.department \in DOMAIN departments =>
              LET may == \/ IsAdminUser(Caller.id)
                         \/ IsHeadOf(Caller.id, last.department)
                         \/ IsMemberOf(Caller.id, last.department)
              IN /\ last.result = "ok" <=> may
                 /\ ~may => last.result = "permission_denied"
        /\ last.department \notin DOMAIN departments =>
              last.result = "department_not_found"

\* C22 witness: a member of the department who is neither admin nor head got its tasks,
\* and there was one
C22_Witness ==
    /\ last.op = "get_department_tasks" /\ last.result = "ok"
    /\ ~IsAdminUser(Caller.id) /\ ~IsHeadOf(Caller.id, last.department)
    /\ IsMemberOf(Caller.id, last.department)
    /\ Len(last.ret) > 0

\* ---- reading notifications ----

\* C23: mark_all_notifications_as_read for a user called twice in a row, and
\* mark_notification_as_read on a notification that is read already, return success
\* both times, and the second call leaves every read flag as the first one left it.
C23_MarkReadIdempotent ==
    /\ (last.op = "mark_all_notifications_as_read" /\ last.repeats) =>
           /\ last.result = "ok"
           /\ notifications = last.before.notifications
    /\ (/\ last.op = "mark_notification_as_read"
        /\ last.notification \in DOMAIN last.before.notifications
        /\ last.before.notifications[last.notification].is_read) =>
           /\ last.result = "ok"
           /\ notifications = last.before.notifications

\* C23 witness: the second of two mark_all_notifications_as_read calls in a row for a
\* user who has a notification, which the first call marked
C23_Witness ==
    /\ last.op = "mark_all_notifications_as_read" /\ last.repeats
    /\ \E i \in DOMAIN notifications :
           notifications[i].user_id = last.user /\ notifications[i].is_read

\* C24: a notification is created unread; the only change ever made to it is its read
\* flag going from false to true, never back; its recipient, message, category and
\* related id never change, and it is never deleted, whatever the operation.
C24_NotificationLifecycle ==
    [][ /\ Len(notifications') >= Len(notifications)
        /\ \A i \in DOMAIN notifications :
              /\ notifications'[i].user_id = notifications[i].user_id
              /\ notifications'[i].message = notifications[i].message
              /\ notifications'[i].type = notifications[i].type
              /\ notifications'[i].related_id = notifications[i].related_id
              /\ notifications[i].is_read => notifications'[i].is_read
        /\ \A i \in DOMAIN notifications' \ DOMAIN notifications :
              ~notifications'[i].is_read ]_vars

\* C24 witness: a read notification and an unread one with another message, after a
\* call that created a notification
C24_Witness ==
    /\ \E i, j \in DOMAIN notifications :
           /\ notifications[i].is_read /\ ~notifications[j].is_read
           /\ notifications[i].message # << >>
           /\ notifications[i].message # notifications[j].message
    /\ last.op \in {"create_task", "assign_task", "update_task_status", "add_task_comment"}
    /\ Len(notifications) > Len(last.before.notifications)

\* ---- users and sessions ----

UsernamesUnique ==
    \A i, j \in DOMAIN users : users[i].username = users[j].username => i = j

\* a step of caller c's own call, not one that only records who overtook whom
StepOf(c) == [calls'[c] EXCEPT !.overtaken = {}] # [calls[c] EXCEPT !.overtaken = {}]

\* a step in which caller c's register_user returns
RegisterReturns(c) ==
    /\ StepOf(c)
    /\ calls'[c].pc = "done" /\ calls'[c].op = "register_user"

\* C25: register_user with a username that exists fails with the message that the
\* user exists and leaves users unchanged; no two users ever share a username, also
\* when two register_user calls with one username interleave between the SELECT and
\* the INSERT, where the call that inserts second gets the database's error.
C25_UsernamesUnique ==
    /\ []UsernamesUnique
    /\ [][\A c \in Callers :
            /\ (~Busy(c) /\ StepOf(c)
                /\ UserIdByUsername(calls'[c].username) # None) =>
                   /\ calls'[c].pc = "done"
                   /\ calls'[c].result = "username_exists"
                   /\ users' = users
            /\ RegisterReturns(c) =>
                   /\ calls'[c].result # "ok" => users' = users
                   /\ calls'[c].result = "ok" =>
                          /\ users' = Append(users, users'[Len(users')])
                          /\ users'[Len(users')].username = calls[c].username
                          /\ calls[c].pc = "insert" /\ calls[c].overtaken = {}
                   /\ (calls[c].pc = "insert" /\ calls[c].overtaken # {}) =>
                          calls'[c].result = "error" ]_vars

\* C25 witness: both callers registered the same new name, their calls interleaved
\* between the SELECT and the INSERT; one has the row, the other the error
C25_Witness ==
    /\ calls[1].pc = "done" /\ calls[2].pc = "done"
    /\ calls[1].op = "register_user" /\ calls[2].op = "register_user"
    /\ calls[1].username = calls[2].username
    /\ calls[1].result = "ok" /\ calls[2].result = "error"
    /\ calls[2].overtaken = {1}

\* C26: login succeeds if and only if a user with the username exists and the digest of
\* the password given equals the stored hash; on success the engine's session is that
\* user, with the stored admin flag; login modifies no user record.
C26_Login ==
    [][(last' # last /\ last'.op = "login") =>
          LET matching == {i \in DOMAIN users :
                              /\ users[i].username = last'.username
                              /\ users[i].password_hash = hash_password(last'.password)}
          IN /\ users' = users
             /\ last'.result = "ok" <=> matching # {}
             /\ last'.result = "ok" =>
                   \E i \in matching :
                       current_user'[last'.engine] =
                           [id |-> i, username |-> users[i].username,
                            is_admin |-> users[i].is_admin]
             /\ last'.result # "ok" => last'.result = "failed" ]_vars

\* C26 witness: a user registered as administrator during the run is logged in, as
\* administrator, on an engine
C26_Witness ==
    /\ last.op = "login" /\ last.result = "ok"
    /\ current_user[last.engine].id > Len(SeedUsers)
    /\ current_user[last.engine].is_admin
    /\ users[current_user[last.engine].id].username = last.username

\* ---- a failing write ----

FaultOps == {"create_task", "assign_task", "update_task_status", "add_task_comment"}

\* C27: when the INSERT or UPDATE of create_task, assign_task, update_task_status or
\* add_task_comment fails, it is rolled back, the caller gets the error, no part of the
\* write is left in the tables, and no notification is created and no mail sent.
C27_FailedWriteRolledBack ==
    [][(/\ last' # last /\ last'.op \in FaultOps
        /\ last'.checks = "ok" /\ last'.fault = "write_fails") =>
           /\ last'.result = "error"
           /\ ~last'.committed
           /\ tasks' = tasks /\ task_comments' = task_comments
           /\ notifications' = notifications
           /\ last'.emailed = {} ]_vars

\* C27 witness: the UPDATE of an assign_task that passed its checks failed, on a task
\* that has an assignee and a notification already
C27_Witness ==
    /\ last.op = "assign_task" /\ last.fault = "write_fails" /\ last.checks = "ok"
    /\ last.result = "error"
    /\ Len(tasks) > 0 /\ Len(notifications) > 0

\* ---- mail that cannot be sent ----

\* C29: send_email_notification returns False and raises nothing when the engine has
\* no SMTP parameters, the recipient has no address, the recipient has email off, or
\* the SMTP server fails; the notification in the application is persisted all the
\* same, one unread row for each recipient, and the call succeeds.
C29_NoMailStillNotifies ==
    [][(/\ last' # last /\ last'.op \in FaultOps
        /\ last'.committed /\ last'.fault \in NoMail) =>
           /\ last'.emailed = {}
           /\ last'.result = "ok"
           /\ Len(notifications') = Len(notifications) + Cardinality(last'.recipients)
           /\ SubSeq(notifications', 1, Len(notifications)) = notifications
           /\ \A u \in last'.recipients :
                 \E i \in DOMAIN notifications' \ DOMAIN notifications :
                     notifications'[i].user_id = u /\ ~notifications'[i].is_read ]_vars

\* C29 witness: a status change notified the creator and the assignee of a task when
\* they had email off
C29_Witness ==
    /\ last.op = "update_task_status" /\ last.fault = "email_disabled"
    /\ last.committed /\ Cardinality(last.recipients) = 2
    /\ last.emailed = {} /\ last.result = "ok"

\* ---- mail and the caller ----

\* C28: sending the mail does not block the caller: a handler has returned to its
\* caller whenever send_email_notification is still waiting for the SMTP server.
C28_ReturnsWithoutWaiting ==
    \A c \in Callers : calls[c].pc = "smtp" => calls[c].result # "running"

\* ---- one engine, two callers ----

\* C30: the engine is safe for concurrent use: when another caller's login or logout
\* falls inside a running create_task or add_task_comment on the same engine, the
\* creator or author persisted is still the principal for whom the call was started
\* and its checks were made.
C30_InvokingPrincipalPersisted ==
    \A c \in Callers :
        (calls[c].pc = "done" /\ calls[c].result = "ok") =>
            /\ calls[c].op = "create_task" =>
                  tasks[calls[c].ret].created_by = calls[c].principal.id
            /\ calls[c].op = "add_task_comment" =>
                  task_comments[calls[c].ret].user_id = calls[c].principal.id

\* ---- the task rows over a run ----

\* C37: every task's status is one of the four values new, in-progress, completed,
\* cancelled in every reachable state.
C37_StatusAllowed ==
    \A i \in DOMAIN tasks : tasks[i].status \in AllowedStatuses

\* C37 witness: an update_task_status was refused for its status value, on a task
\* that assign_task had moved to in-progress
C37_Witness ==
    /\ last.op = "update_task_status" /\ last.result = "invalid_status"
    /\ last.status \notin AllowedStatuses
    /\ TaskExisted /\ tasks[last.task].status = "in_progress"

\* the step is the call of an operation that returned
Returned(op) == last' # last /\ last'.op = op

\* every task but the addressed one is as it was
OthersUntouched(task_id) ==
    \A i \in DOMAIN tasks : i # task_id => tasks'[i] = tasks[i]

\* C38: update_task_status changes only the status of the addressed task; assign_task
\* changes only its assignee and status; no operation changes a task's creator or
\* department, or another task, or deletes a task, or unsets an assignee.
C38_TaskFrame ==
    [][ /\ Len(tasks') >= Len(tasks)
        /\ \A i \in DOMAIN tasks :
              /\ tasks'[i].created_by = tasks[i].created_by
              /\ tasks'[i].department_id = tasks[i].department_id
              /\ tasks[i].assigned_to # None => tasks'[i].assigned_to # None
        /\ tasks' # tasks => last' # last /\ last'.op \in {"create_task", "assign_task",
                                                           "update_task_status"}
        /\ Returned("create_task") => SubSeq(tasks', 1, Len(tasks)) = tasks
        /\ Returned("update_task_status") =>
              /\ Len(tasks') = Len(tasks)
              /\ OthersUntouched(last'.task)
              /\ \A i \in DOMAIN tasks : tasks'[i].assigned_to = tasks[i].assigned_to
        /\ Returned("assign_task") =>
              /\ Len(tasks') = Len(tasks)
              /\ OthersUntouched(last'.task) ]_vars

\* C38 witness: of two tasks the second, which has an assignee, was cancelled
C38_Witness ==
    /\ last.op = "update_task_status" /\ last.result = "ok" /\ last.status = "cancelled"
    /\ Len(tasks) = 2 /\ last.task = 2
    /\ tasks[2].assigned_to # None

\* C39: assign_task on a task that has an assignee succeeds under the same checks,
\* replaces the assignee by the target, and creates one task-assignment notification,
\* for the target; the previous assignee gets none unless it is the target again.
C39_Reassignment ==
    (last.op = "assign_task" /\ TaskExisted /\ Caller # NoUser
        /\ TaskBefore.assigned_to # None) =>
        /\ last.result = "ok" <=>
              /\ MayAssign(Caller.id, TaskBefore)
              /\ UserExists(last.user)
              /\ TaskBefore.department_id # None =>
                     IsMemberOf(last.user, TaskBefore.department_id)
        /\ last.result = "ok" =>
              /\ tasks[last.task].assigned_to = last.user
              /\ notifications = Append(last.before.notifications,
                                        Unread(last.user, "task_assignment", last.task))
              /\ TaskBefore.assigned_to # last.user =>
                     NewNotificationsFor(TaskBefore.assigned_to) = 0

\* C39 witness: a task was taken from its assignee and given to another user
C39_Witness ==
    /\ last.op = "assign_task" /\ last.result = "ok"
    /\ TaskExisted /\ TaskBefore.assigned_to # None
    /\ TaskBefore.assigned_to # last.user
    /\ tasks[last.task].assigned_to = last.user

\* C36: a failed login leaves the session as it was; only a successful login or a
\* logout changes the user of the session.
C36_FailedLoginKeepsSession ==
    [][ /\ (Returned("login") /\ last'.result = "failed") => current_user' = current_user
        /\ current_user' # current_user =>
              \/ last'.op = "login" /\ last'.result = "ok"
              \/ last'.op = "logout" ]_vars

\* C36 witness: a login failed while a user was logged in, who still is
C36_Witness ==
    /\ last.op = "login" /\ last.result = "failed"
    /\ current_user[last.engine] # NoUser
    /\ last.username # current_user[last.engine].username

\* ---- assignees and departments ----

\* the task was given its assignee in this step: it is new, or its assignee changed
AssignedNow(i) ==
    /\ i \in DOMAIN tasks'
    /\ tasks'[i].assigned_to # None
    /\ i \in DOMAIN tasks => tasks'[i].assigned_to # tasks[i].assigned_to

\* C32: every task that has a department and an assignee has an assignee who was a
\* member of that department when create_task or assign_task made the assignment.
C32_AssigneeWasMember ==
    /\ [](\A i \in DOMAIN tasks :
              (tasks[i].department_id # None /\ tasks[i].assigned_to # None) =>
                  IsMemberOf(tasks[i].assigned_to, tasks[i].department_id))
    /\ [][\A i \in DOMAIN tasks' :
              (AssignedNow(i) /\ tasks'[i].department_id # None) =>
                  <<tasks'[i].department_id, tasks'[i].assigned_to>>
                      \in department_employees]_vars

\* C32 witness: a task of the department is assigned to the user who was added to the
\* department during the run
C32_Witness ==
    \E i \in DOMAIN tasks :
        /\ tasks[i].department_id # None /\ tasks[i].assigned_to # None
        /\ <<tasks[i].department_id, tasks[i].assigned_to>> \notin SeedEmployees
        /\ last.op \in {"create_task", "assign_task"} /\ last.result = "ok"

\* ---- notifications after the write ----

\* the calls that notify, and what they return when their write is made
NotifyingOps == {"create_task", "assign_task", "update_task_status", "add_task_comment"}

\* C35: a notification is created only by a call whose task or comment write is made:
\* every notification's related task exists, and a call that returned a permission,
\* validation or not-found error has created none.
C35_NotificationsFollowWrite ==
    /\ \A n \in DOMAIN notifications : notifications[n].related_id \in DOMAIN tasks
    /\ last.op \in NotifyingOps =>
          /\ last.result # "ok" => notifications = last.before.notifications
          /\ notifications # last.before.notifications =>
                /\ last.result = "ok"
                /\ \A n \in DOMAIN NewNotifications :
                      LET nf == NewNotifications[n] IN
                      /\ last.op = "create_task" =>
                            /\ nf.related_id = Len(tasks)
                            /\ Len(tasks) = Len(last.before.tasks) + 1
                            /\ tasks[nf.related_id].assigned_to = nf.user_id
                      /\ last.op = "assign_task" =>
                            /\ nf.related_id = last.task
                            /\ tasks[last.task].assigned_to = nf.user_id
                      /\ last.op = "update_task_status" =>
                            /\ nf.related_id = last.task
                            /\ tasks[last.task].status = last.status
                      /\ last.op = "add_task_comment" =>
                            /\ nf.related_id = last.task
                            /\ Len(task_comments) = Len(last.before.task_comments) + 1
                            /\ task_comments[Len(task_comments)].task_id = last.task

\* C35 witness: an assign_task was refused for its target after an earlier call had
\* created a notification
C35_Witness ==
    /\ last.op = "assign_task" /\ last.result \in {"user_not_found", "not_member"}
    /\ Len(notifications) > 0
    /\ notifications = last.before.notifications

\* ---- the lists ----

\* the user whose tasks or statistics the last call asked for
AskedUser == IF last.user = None THEN Caller.id ELSE last.user

\* C33: get_user_tasks for user u returns exactly the tasks u created or is assigned,
\* of the status given if one is given, the newest first, each once, and of these the
\* page asked for: it skips (page - 1) * per_page tasks and returns at most per_page.
C33_UserTasksPage ==
    (last.op = "get_user_tasks" /\ last.result = "ok") =>
        LET matching == {i \in DOMAIN tasks :
                            /\ tasks[i].created_by = AskedUser
                               \/ tasks[i].assigned_to = AskedUser
                            /\ last.status = NoStatus \/ tasks[i].status = last.status}
            offset == (last.page - 1) * last.per_page
            rest == Cardinality(matching) - offset
            n == IF rest < 0 THEN 0 ELSE IF rest < last.per_page THEN rest
                 ELSE last.per_page
        IN /\ Len(last.ret) = n
           /\ \A j \in 1..n :
                 /\ last.ret[j].id \in matching
                 /\ Cardinality({m \in matching : m > last.ret[j].id}) = offset + j - 1
                 /\ last.ret[j].status = tasks[last.ret[j].id].status

\* C33 witness: the second page of size one holds the older of the user's two tasks,
\* which the user created and is assigned
C33_Witness ==
    /\ last.op = "get_user_tasks" /\ last.result = "ok"
    /\ last.page = 2 /\ last.per_page = 1
    /\ Len(tasks) = 2 /\ Len(last.ret) = 1 /\ last.ret[1].id = 1
    /\ tasks[1].created_by = AskedUser /\ tasks[1].assigned_to = AskedUser

\* how many of a set of tasks have a status
Having(ids, status) == Cardinality({i \in ids : tasks[i].status = status})

\* the four counts and their total, as get_user_statistics reports them for a set of tasks
CountsAre(counts, ids) ==
    /\ counts.new = Having(ids, "new")
    /\ counts.in_progress = Having(ids, "in_progress")
    /\ counts.completed = Having(ids, "completed")
    /\ counts.cancelled = Having(ids, "cancelled")
    /\ counts.total = counts.new + counts.in_progress + counts.completed + counts.cancelled

\* C34: get_user_statistics for user u counts the tasks in each of the four statuses,
\* with their sum as total, for the tasks assigned to u and for the tasks u created,
\* each on its own; overdue is the number of tasks assigned to u whose deadline has
\* passed and which are neither completed nor cancelled.
C34_Statistics ==
    (last.op = "get_user_statistics" /\ last.result = "ok") =>
        LET assigned == {i \in DOMAIN tasks : tasks[i].assigned_to = AskedUser}
            created == {i \in DOMAIN tasks : tasks[i].created_by = AskedUser}
        IN /\ CountsAre(last.ret.assigned_tasks, assigned)
           /\ CountsAre(last.ret.created_tasks, created)
           /\ last.ret.deadlines.overdue =
                  Cardinality({i \in assigned :
                                  /\ tasks[i].deadline # None /\ tasks[i].deadline < 0
                                  /\ tasks[i].status # "completed"
                                  /\ tasks[i].status # "cancelled"})

\* C34 witness: the user asked about is assigned a task whose deadline has passed and
\* which has been cancelled; it is counted as cancelled and none is reported overdue
C34_Witness ==
    /\ last.op = "get_user_statistics" /\ last.result = "ok"
    /\ last.ret.deadlines.overdue = 0
    /\ last.ret.assigned_tasks.cancelled = 1 /\ last.ret.assigned_tasks.total = 1
    /\ \E i \in DOMAIN tasks :
           /\ tasks[i].assigned_to = AskedUser /\ tasks[i].created_by # AskedUser
           /\ tasks[i].deadline # None /\ tasks[i].deadline < 0
           /\ tasks[i].status = "cancelled"

\* ---- a status update next to an assignment ----

\* caller c has an update_task_status that has passed its checks and its UPDATE, or
\* has returned after them
PastUpdate(c) ==
    \/ calls[c].pc \in {"status_notify", "notify_insert", "notify_smtp"}
    \/ calls[c].pc = "done" /\ calls[c].result \in {"ok", "conflict"}

\* C31: a status update whose task was modified by another operation between its
\* read of the task and its write does not apply its write and fails with a Conflict
\* error.
C31_StaleWriteConflicts ==
    \A c \in StatusCallers :
        (PastUpdate(c) /\ calls[c].stale) =>
            (~calls[c].written /\ calls[c].result = "conflict")

\* C40: the users notified of a status change are the creator and the assignee of the
\* task as the status update committed it, whatever an assign_task does to the task
\* between that commit and the notification.
C40_RecipientsAsCommitted ==
    \A c \in StatusCallers :
        (PastUpdate(c) /\ calls[c].result = "ok") =>
            calls[c].recipients =
                {calls[c].committed.created_by, calls[c].committed.assigned_to} \ {None}

=============================================================================
